---- MODULE Spec2Model ----
(***************************************************************************)
(* fastdeps: the SQLite symbol cache (src/src/cache.rs), the parallel      *)
(* indexing pipeline (parallel_index) and the ranked search engine         *)
(* (src/src/search.rs).                                                    *)
(*                                                                         *)
(* Strings are sequences of one-character strings, so that lowercasing,    *)
(* splitting on "::", prefix/substring tests and edit distance are         *)
(* computed the way the code computes them.                                *)
(***************************************************************************)
EXTENDS Integers, Sequences, FiniteSets, TLC

VARIABLES
    foreign_keys,   \* does the linked SQLite enforce REFERENCES ... ON DELETE CASCADE
    db,             \* the committed content of .fastdeps/cache.sqlite
    conn,           \* the API connection (a Cache value held by a caller)
    run,            \* the running / last parallel_index call
    chan,           \* mpsc channel between parsers and writer
    writer,         \* the writer thread of parallel_index
    obs,            \* last observation of a concurrent reader
    prev,           \* outcome of the build_index call before the current one
    resp            \* last SearchResponse returned by SearchEngine::search

vars == <<foreign_keys, db, conn, run, chan, writer, obs, prev, resp>>

\* optional values: None, Some(x) and the value of a Some
None == {}
Some(x) == {x}
The(o) == CHOOSE x \in o : TRUE

----------------------------------------------------------------------------
(* Bounds of the model.                                                    *)

\* number of API operations (build_index, batch_index, index_crate, clear)
MaxOps == 2
\* stand-in for the writer's BATCH_SIZE (50 in the code), scaled to the
\* three packages of the model so that both the full-batch write and the
\* final flush happen
BATCH_SIZE == 2

----------------------------------------------------------------------------
(* Characters and strings.                                                 *)

\* byte value of a character (String::cmp compares bytes)
Code(c) ==
    CASE c = ":" -> 58
      [] c = "F" -> 70
      [] c = "S" -> 83
      [] c = "a" -> 97
      [] c = "b" -> 98
      [] c = "c" -> 99
      [] c = "d" -> 100
      [] c = "f" -> 102
      [] c = "i" -> 105
      [] c = "m" -> 109
      [] c = "n" -> 110
      [] c = "o" -> 111
      [] c = "r" -> 114
      [] c = "s" -> 115
      [] c = "t" -> 116
      [] c = "u" -> 117
      [] OTHER -> 0

\* char::to_lowercase / to_ascii_lowercase on the characters of the model
LowerChar(c) ==
    CASE c = "F" -> "f"
      [] c = "S" -> "s"
      [] OTHER -> c

to_lowercase(s) == [i \in 1..Len(s) |-> LowerChar(s[i])]

eq_ignore_ascii_case(a, b) == to_lowercase(a) = to_lowercase(b)

starts_with(s, q) == Len(q) <= Len(s) /\ SubSeq(s, 1, Len(q)) = q

contains(s, q) ==
    \E i \in 1..(Len(s) + 1) : i + Len(q) - 1 <= Len(s) /\ SubSeq(s, i, i + Len(q) - 1) = q

\* path.split("::").last(): the text after the last "::"
SplitLast(s) ==
    LET seps == {i \in 1..(Len(s) - 1) : s[i] = ":" /\ s[i + 1] = ":"}
    IN  IF seps = {} THEN s
        ELSE LET m == CHOOSE i \in seps : \A j \in seps : j <= i
             IN  SubSeq(s, m + 2, Len(s))

\* a.cmp(b) on strings: -1, 0, 1 (byte-wise lexicographic)
RECURSIVE StrCmp(_, _)
StrCmp(a, b) ==
    IF a = <<>> /\ b = <<>> THEN 0
    ELSE IF a = <<>> THEN -1
    ELSE IF b = <<>> THEN 1
    ELSE IF Code(Head(a)) < Code(Head(b)) THEN -1
    ELSE IF Code(Head(a)) > Code(Head(b)) THEN 1
    ELSE StrCmp(Tail(a), Tail(b))

Min2(x, y) == IF x <= y THEN x ELSE y
Max2(x, y) == IF x >= y THEN x ELSE y

\* one row of the dynamic-programming table of levenshtein: dp[i][0..n]
\* from dp[i-1][0..n] (rows are sequences indexed 1..n+1)
RECURSIVE LevRow(_, _, _, _, _)
LevRow(prevRow, ai, b, i, acc) ==
    LET j == Len(acc)
    IN  IF j > Len(b) THEN acc
        ELSE LET cost == IF ai = b[j] THEN 0 ELSE 1
                 v == Min2(Min2(prevRow[j + 1] + 1, acc[j] + 1), prevRow[j] + cost)
             IN  LevRow(prevRow, ai, b, i, Append(acc, v))

RECURSIVE LevRows(_, _, _, _)
LevRows(a, b, i, prevRow) ==
    IF i > Len(a) THEN prevRow[Len(b) + 1]
    ELSE LevRows(a, b, i + 1, LevRow(prevRow, a[i], b, i, <<i>>))

levenshtein(a, b) ==
    IF Len(a) = 0 THEN Len(b)
    ELSE IF Len(b) = 0 THEN Len(a)
    ELSE LevRows(a, b, 1, [j \in 1..(Len(b) + 1) |-> j - 1])

----------------------------------------------------------------------------
(* The packages and sources of the model.                                  *)

nD == <<"d">>
nT == <<"t">>

pD1 == [name |-> nD, version |-> 1]
pT1 == [name |-> nT, version |-> 1]
pT2 == [name |-> nT, version |-> 2]

\* the registry: every RegistryCrate a caller can pass to build_index
Registry == {pD1, pT1, pT2}

kFunction == <<"F", "u", "n", "c", "t", "i", "o", "n">>
kStruct == <<"S", "t", "r", "u", "c", "t">>

Item(p, k) == [path |-> p, kind |-> k]

d_foo == <<"d", ":", ":", "f", "o", "o">>
d_Food == <<"d", ":", ":", "F", "o", "o", "d">>
d_m_foo == <<"d", ":", ":", "m", ":", ":", "f", "o", "o">>
d_bar == <<"d", ":", ":", "b", "a", "r">>
t_fob == <<"t", ":", ":", "f", "o", "b">>
t_foo == <<"t", ":", ":", "f", "o", "o">>
t_afoo == <<"t", ":", ":", "a", "f", "o", "o">>
t_bar == <<"t", ":", ":", "b", "a", "r">>

\* what parse_crate can return for a package: the item lists of the
\* versions of its source tree (a path dependency changes on disk; a
\* re-export makes the extractor emit the same path twice)
ParseResults(p) ==
    IF p = pD1 THEN
        { <<Item(d_foo, kFunction), Item(d_Food, kStruct), Item(d_m_foo, kFunction)>>,
          <<Item(d_bar, kStruct), Item(d_foo, kFunction), Item(d_bar, kFunction)>> }
    ELSE IF p = pT1 THEN
        { <<Item(t_fob, kStruct), Item(t_foo, kFunction), Item(t_afoo, kFunction)>> }
    ELSE
        { <<Item(t_bar, kStruct)>> }

PathSet(items) == {items[i].path : i \in 1..Len(items)}

----------------------------------------------------------------------------
(* The store: tables crates, items and the FTS5 index items_fts.           *)
(*   crates row : [id, name, version]                                      *)
(*   items row  : [id, crate_id, path, kind, src]   (src is a history      *)
(*                field: the package whose parse result the row is from)   *)
(*   items_fts  : the index entries <<rowid, path>> (external content      *)
(*                table: the index is only changed by the triggers)        *)

SCHEMA_VERSION == 2

NoFile == [exists |-> FALSE, schema_version |-> 0, crates |-> {}, items |-> {}, fts |-> {}]

\* rowid SQLite gives to a new row of an INTEGER PRIMARY KEY table
NewRowid(rows) ==
    IF rows = {} THEN 1
    ELSE (CHOOSE m \in {r.id : r \in rows} : \A r \in rows : r.id <= m) + 1

\* trigger items_fts_insert
items_fts_insert(fts, new) == fts \cup {<<new.id, new.path>>}

\* trigger items_fts_delete
items_fts_delete(fts, old) == fts \ {<<old.id, old.path>>}

\* the delete trigger fired for each row of a set of deleted rows
RECURSIVE FireDeleteTrigger(_, _)
FireDeleteTrigger(fts, victims) ==
    IF victims = {} THEN fts
    ELSE LET r == CHOOSE x \in victims : TRUE
         IN  FireDeleteTrigger(items_fts_delete(fts, r), victims \ {r})

\* DELETE FROM items WHERE <row in victims>
DeleteItemRows(s, victims) ==
    [s EXCEPT !.items = s.items \ victims,
              !.fts = FireDeleteTrigger(s.fts, victims)]

\* INSERT OR REPLACE INTO crates (name, version, path, indexed_at): a row
\* with the same (name, version) is deleted and a new row with a new rowid
\* is inserted.  The items of the deleted row go with it only when foreign
\* keys are enforced (ON DELETE CASCADE).
InsertOrReplaceCrate(s, p, fk) ==
    LET old == {c \in s.crates : c.name = p.name /\ c.version = p.version}
        id == NewRowid(s.crates)
        s1 == IF fk THEN DeleteItemRows(s, {r \in s.items : r.crate_id \in {c.id : c \in old}})
              ELSE s
    IN  [s1 EXCEPT !.crates = (s.crates \ old) \cup {[id |-> id, name |-> p.name, version |-> p.version]}]

\* DELETE FROM items WHERE crate_id = ?
DeleteItemsOfCrate(s, crate_id) ==
    DeleteItemRows(s, {r \in s.items : r.crate_id = crate_id})

ItemRow(id, crate_id, item, src) ==
    [id |-> id, crate_id |-> crate_id, path |-> item.path,
     kind |-> to_lowercase(item.kind), src |-> src]

\* an insert that keeps the row with the same (crate_id, path)
InsertOrReplaceItem_NoReplace(s, crate_id, item, src) ==
    [s EXCEPT !.items = s.items \cup {ItemRow(NewRowid(s.items), crate_id, item, src)}]

\* INSERT OR REPLACE INTO items (...): a row with the same (crate_id, path)
\* is removed by the REPLACE conflict resolution, for which the delete
\* trigger does not fire (recursive_triggers is off); the insert trigger
\* fires for the new row.
InsertOrReplaceItem(s, crate_id, item, src) ==
    LET old == {r \in s.items : r.crate_id = crate_id /\ r.path = item.path}
        new == ItemRow(NewRowid(s.items), crate_id, item, src)
    IN  [s EXCEPT !.items = (s.items \ old) \cup {new},
                  !.fts = items_fts_insert(s.fts, new)]

\* INSERT INTO items (...): fails on UNIQUE(crate_id, path)
InsertItemConflicts(s, crate_id, item) ==
    \E r \in s.items : r.crate_id = crate_id /\ r.path = item.path

InsertItem(s, crate_id, item, src) ==
    LET new == ItemRow(NewRowid(s.items), crate_id, item, src)
    IN  [s EXCEPT !.items = s.items \cup {new},
                  !.fts = items_fts_insert(s.fts, new)]

\* Cache::clear: DELETE FROM items; DELETE FROM crates;
clear(s, fk) ==
    LET s1 == DeleteItemRows(s, s.items)
    IN  [s1 EXCEPT !.crates = {}]

\* the statement of Cache::init_schema at which an error strikes: the CREATE
\* TABLE batch, the SELECT of schema_version, the batch that creates the FTS
\* table and its triggers, the SELECT COUNT(*), the FTS rebuild, the INSERT OR
\* REPLACE of schema_version
NoFault == "none"
Faults == {NoFault, "tables", "read", "fts", "count", "rebuild", "version"}

\* INSERT INTO items_fts(items_fts) VALUES('rebuild'): the index is rebuilt
\* from the content table
fts_rebuild(s) == [s EXCEPT !.fts = {<<i.id, i.path>> : i \in s.items}]

\* Cache::migrate_to_v2: CREATE ... IF NOT EXISTS of the FTS table and its
\* triggers, then the rebuild when there are items
migrate_to_v2(s, fault) ==
    IF fault \in {"fts", "count"} THEN [ok |-> FALSE, s |-> s, rebuilt |-> FALSE]
    ELSE IF s.items = {} THEN [ok |-> TRUE, s |-> s, rebuilt |-> FALSE]
    ELSE IF fault = "rebuild" THEN [ok |-> FALSE, s |-> s, rebuilt |-> FALSE]
    ELSE [ok |-> TRUE, s |-> fts_rebuild(s), rebuilt |-> TRUE]

\* the version init_schema works with: the query's error and an unparsable
\* value are both turned into 0 (unwrap_or(0))
current_version(s, fault) == IF fault = "read" THEN 0 ELSE s.schema_version

\* the end of init_schema, after the migration step m
UpdateVersion(m, migrated, fault) ==
    IF ~m.ok \/ fault = "version"
    THEN [ok |-> FALSE, s |-> m.s, migrated |-> migrated, rebuilt |-> m.rebuilt]
    ELSE [ok |-> TRUE, s |-> [m.s EXCEPT !.schema_version = SCHEMA_VERSION],
          migrated |-> migrated, rebuilt |-> m.rebuilt]

\* Cache::init_schema on a database file (created when missing by
\* Connection::open): the tables, the v2 migration when the version read is
\* below 2, and the version row.  The result tells whether it returned Ok,
\* the file afterwards, and whether migrate_to_v2 ran and rebuilt the index.
init_schema(s, fault) ==
    IF fault = "tables"
    THEN [ok |-> FALSE, s |-> [s EXCEPT !.exists = TRUE],
          migrated |-> FALSE, rebuilt |-> FALSE]
    ELSE IF current_version(s, fault) < 2
    THEN UpdateVersion(migrate_to_v2([s EXCEPT !.exists = TRUE], fault), TRUE, fault)
    ELSE UpdateVersion([ok |-> TRUE, s |-> [s EXCEPT !.exists = TRUE], rebuilt |-> FALSE],
                       FALSE, fault)

----------------------------------------------------------------------------
(* Queries of Cache.                                                       *)

\* Cache::is_indexed
is_indexed(s, p) == \E c \in s.crates : c.name = p.name /\ c.version = p.version

\* a get_indexed_set that reports nothing as stored
get_indexed_set_Nothing(s) == {}

\* Cache::get_indexed_set ("name@version" strings are kept as records)
get_indexed_set(s) == {[name |-> c.name, version |-> c.version] : c \in s.crates}

\* the indexed set of parallel_index: empty when forcing
indexed_set(force, s) == IF force THEN {} ELSE get_indexed_set(s)

\* rows of items JOIN crates ON crate_id = id for one crate name and version
JoinRows(s, name, version) ==
    {r \in s.items : \E c \in s.crates :
        c.id = r.crate_id /\ c.name = name /\ c.version = version}

\* SELECT MAX(version) FROM crates WHERE name = ?  (0: no row, NULL)
MaxVersion(s, name) ==
    LET vs == {c.version : c \in {x \in s.crates : x.name = name}}
    IN  IF vs = {} THEN 0 ELSE CHOOSE v \in vs : \A w \in vs : w <= v

\* ORDER BY i.path: the rows of a set in ascending order of path (the
\* paths of the rows of one crate are distinct)
RECURSIVE OrderByPath(_)
OrderByPath(rows) ==
    IF rows = {} THEN <<>>
    ELSE LET first == CHOOSE r \in rows : \A o \in rows : StrCmp(r.path, o.path) <= 0
         IN  <<first>> \o OrderByPath(rows \ {first})

\* Cache::search_crate(name, version): ORDER BY i.path; version = 0 stands
\* for None (the latest version is taken)
search_crate(s, name, version) ==
    LET v == IF version = 0 THEN MaxVersion(s, name) ELSE version
    IN  OrderByPath(JoinRows(s, name, v))

\* Cache::stats
stats(s) == [crate_count |-> Cardinality(s.crates), item_count |-> Cardinality(s.items)]

\* Cache::search: items whose id is among the rowids the FTS index returns
\* for the quoted phrase, joined with crates, ORDER BY name, version, path.
\* The trigram tokenizer folds case and matches a phrase of three or more
\* characters against every index entry whose text contains it.
FtsMatch(s, query) ==
    LET q == to_lowercase(query)
    IN  {e[1] : e \in {x \in s.fts : Len(q) >= 3 /\ contains(to_lowercase(x[2]), q)}}

SearchRow(c, i) ==
    [crate_name |-> c.name, crate_version |-> c.version, path |-> i.path, kind |-> i.kind]

SearchRowCmp(a, b) ==
    IF StrCmp(a.crate_name, b.crate_name) # 0 THEN StrCmp(a.crate_name, b.crate_name)
    ELSE IF a.crate_version # b.crate_version
         THEN (IF a.crate_version < b.crate_version THEN -1 ELSE 1)
    ELSE StrCmp(a.path, b.path)

RECURSIVE OrderSearchRows(_)
OrderSearchRows(rows) ==
    IF rows = {} THEN <<>>
    ELSE LET first == CHOOSE r \in rows : \A o \in rows : SearchRowCmp(r, o) <= 0
         IN  <<first>> \o OrderSearchRows(rows \ {first})

search(s, query) ==
    LET ids == FtsMatch(s, query)
        rows == {SearchRow(c, i) : <<c, i>> \in
                    {x \in s.crates \X s.items : x[2].crate_id = x[1].id /\ x[2].id \in ids}}
    IN  OrderSearchRows(rows)

----------------------------------------------------------------------------
(* SearchEngine (src/src/search.rs).                                       *)

\* the fuzzy fallback firing also at exactly five primary hits
FuzzyThreshold_Inclusive == 5 + 1

FuzzyThreshold == 5

Exact == [tag |-> "exact", distance |-> 0]
Prefix == [tag |-> "prefix", distance |-> 0]
Contains == [tag |-> "contains", distance |-> 0]
Fuzzy(d) == [tag |-> "fuzzy", distance |-> d]

\* a score_item whose prefix score has no cap on the excess length
score_item_Uncapped(path, query) ==
    LET path_lower == to_lowercase(path)
        query_lower == to_lowercase(query)
        item_name == SplitLast(path_lower)
    IN  IF item_name = query_lower THEN <<100, Exact>>
        ELSE IF starts_with(item_name, query_lower)
             THEN <<80 - (Len(item_name) - Len(query_lower)), Prefix>>
        ELSE IF contains(item_name, query_lower) THEN <<50, Contains>>
        ELSE IF contains(path_lower, query_lower) THEN <<30, Contains>>
        ELSE <<0, Contains>>

\* SearchEngine::score_item: <<score, match_type>>
score_item(path, query) ==
    LET path_lower == to_lowercase(path)
        query_lower == to_lowercase(query)
        item_name == SplitLast(path_lower)
    IN  IF item_name = query_lower THEN <<100, Exact>>
        ELSE IF starts_with(item_name, query_lower)
             THEN <<80 - Min2(Len(item_name) - Len(query_lower), 20), Prefix>>
        ELSE IF contains(item_name, query_lower) THEN <<50, Contains>>
        ELSE IF contains(path_lower, query_lower) THEN <<30, Contains>>
        ELSE <<0, Contains>>

\* the loop body shared by search_in_crate and search_all: score_item, then
\* the boost of 10 for a direct dependency
Boosted(sm, is_direct) ==
    [score |-> IF is_direct THEN sm[1] + 10 ELSE sm[1], match_type |-> sm[2]]

PrimaryHit(path, query, is_direct) == Boosted(score_item(path, query), is_direct)

ScoredResult(name, version, row, score, direct, mt) ==
    [crate_name |-> name, crate_version |-> version, path |-> row.path, kind |-> row.kind,
     score |-> score, is_direct_dep |-> direct, match_type |-> mt]

\* the elements of a sequence that satisfy a test, in order
RECURSIVE FilterSeq(_, _)
FilterSeq(seq, keep) ==
    IF seq = <<>> THEN <<>>
    ELSE (IF Head(seq) \in keep THEN <<Head(seq)>> ELSE <<>>) \o FilterSeq(Tail(seq), keep)

Range(seq) == {seq[i] : i \in 1..Len(seq)}

\* results.push(ScoredResult { .. }) of the primary searches
PushHit(name, version, row, hit, is_direct) ==
    ScoredResult(name, version, row, hit.score, is_direct, hit.match_type)

\* the rows that pass the filters of search_in_crate: the kind filter and a
\* positive score
InCrateKept(items, query, options) ==
    FilterSeq(items,
        {i \in Range(items) :
            /\ (options.kind_filter # None
                    => eq_ignore_ascii_case(i.kind, The(options.kind_filter)))
            /\ score_item(i.path, query)[1] > 0})

\* the loop of search_in_crate over the rows that passed its filters
InCrateHits(kept, crate_name, query, is_direct) ==
    [k \in 1..Len(kept) |->
        PushHit(crate_name, 0, kept[k], PrimaryHit(kept[k].path, query, is_direct), is_direct)]

\* SearchEngine::search_in_crate: the latest stored version of the crate;
\* crate_version of the results is the empty string (written 0)
search_in_crate(eng, s, crate_name, query, options) ==
    InCrateHits(InCrateKept(search_crate(s, crate_name, 0), query, options),
                crate_name, query, crate_name \in eng.direct_deps)

\* the loop of search_all over the rows that passed its filters
AllHits(kept, query, direct_deps) ==
    [k \in 1..Len(kept) |->
        PushHit(kept[k].crate_name, kept[k].crate_version, kept[k],
                PrimaryHit(kept[k].path, query, kept[k].crate_name \in direct_deps),
                kept[k].crate_name \in direct_deps)]

\* the (name, version) pairs of the project's dependencies
DepSet(all_deps) == {[name |-> d.name, version |-> d.version] : d \in Range(all_deps)}

\* the rows that pass the filters of search_all: a dependency of the
\* project, direct_only and the kind filter
AllKept(raw_results, eng, options) ==
    FilterSeq(raw_results,
        {r \in Range(raw_results) :
            /\ [name |-> r.crate_name, version |-> r.crate_version] \in DepSet(eng.all_deps)
            /\ ~(options.direct_only /\ r.crate_name \notin eng.direct_deps)
            /\ (options.kind_filter # None
                    => eq_ignore_ascii_case(r.kind, The(options.kind_filter)))})

\* SearchEngine::search_all
search_all(eng, s, query, options) ==
    AllHits(AllKept(search(s, query), eng, options), query, eng.direct_deps)

\* (100 - distance * 25).max(10) as u32, computed in usize.  A u32 is kept
\* as its 32-bit pattern read in two's complement (2^32 - k is written -k)
\* and compared with U32Cmp.  When distance * 25 exceeds 100 the
\* subtraction overflows: a build with overflow checks panics, a build
\* without wraps to 2^64 - k, which max(10) keeps and `as u32` truncates to
\* 2^32 - k.
fuzzy_score(distance, overflow_checks) ==
    LET diff == 100 - distance * 25
    IN  IF diff < 0 /\ overflow_checks THEN [panic |-> TRUE, score |-> 0]
        ELSE [panic |-> FALSE, score |-> IF diff < 0 THEN diff ELSE Max2(diff, 10)]

\* u32::cmp on 32-bit patterns: a negative pattern is above every
\* non-negative one
U32Cmp(a, b) ==
    IF a = b THEN 0
    ELSE IF (a < 0) = (b < 0) THEN (IF a < b THEN -1 ELSE 1)
    ELSE IF b < 0 THEN -1 ELSE 1

\* levenshtein(query, &item_name.to_lowercase()) of fuzzy_search
name_distance(query, row) == levenshtein(query, to_lowercase(SplitLast(row.path)))

\* results.push(ScoredResult { .. }) of fuzzy_search (the score is that of a
\* call that does not panic)
PushFuzzy(dep, row, distance, is_direct) ==
    ScoredResult(dep.name, dep.version, row, fuzzy_score(distance, FALSE).score,
                 is_direct, Fuzzy(distance))

FuzzyHits(kept, dep, query, direct_deps) ==
    [k \in 1..Len(kept) |->
        PushFuzzy(dep, kept[k], name_distance(query, kept[k]), dep.name \in direct_deps)]

\* the rows within max_edit_distance of the query
FuzzyKept(items, query, options) ==
    FilterSeq(items,
        {i \in Range(items) : name_distance(query, i) <= options.max_edit_distance})

\* the items of one dependency that fuzzy_search admits
FuzzyOfDep(eng, s, dep, query, options) ==
    FuzzyHits(FuzzyKept(search_crate(s, dep.name, dep.version), query, options),
              dep, query, eng.direct_deps)

\* SearchEngine::fuzzy_search
RECURSIVE FuzzyOverDeps(_, _, _, _, _)
FuzzyOverDeps(eng, s, deps, query, options) ==
    IF deps = <<>> THEN <<>>
    ELSE LET dep == Head(deps)
             skip == \/ (options.direct_only /\ dep.name \notin eng.direct_deps)
                     \/ (options.crate_filter # None /\ dep.name # The(options.crate_filter))
         IN  (IF skip THEN <<>> ELSE FuzzyOfDep(eng, s, dep, query, options))
             \o FuzzyOverDeps(eng, s, Tail(deps), query, options)

fuzzy_search(eng, s, query, options) ==
    IF ~s.exists THEN <<>>
    ELSE FuzzyOverDeps(eng, s, eng.all_deps, query, options)

\* does the score computation of fuzzy_search overflow for some admitted
\* item (an admitted distance is at most max_edit_distance)
FuzzyOverflows(eng, s, query, options) ==
    /\ fuzzy_score(options.max_edit_distance, TRUE).panic
    /\ \E x \in Range(fuzzy_search(eng, s, query, options)) :
          fuzzy_score(x.match_type.distance, TRUE).panic

\* a comparator that orders by ascending score
ResultCmp_Ascending(a, b) ==
    IF U32Cmp(a.score, b.score) # 0 THEN U32Cmp(a.score, b.score)
    ELSE StrCmp(a.path, b.path)

\* comparator of the final sort: b.score.cmp(a.score).then(a.path.cmp(b.path))
ResultCmp(a, b) ==
    IF U32Cmp(b.score, a.score) # 0 THEN U32Cmp(b.score, a.score)
    ELSE StrCmp(a.path, b.path)

\* Vec::sort_by is stable: an element goes behind the elements it does not
\* precede
RECURSIVE InsertSorted(_, _)
InsertSorted(sorted, x) ==
    IF sorted = <<>> THEN <<x>>
    ELSE IF ResultCmp(x, Head(sorted)) < 0 THEN <<x>> \o sorted
    ELSE <<Head(sorted)>> \o InsertSorted(Tail(sorted), x)

RECURSIVE SortResults(_, _)
SortResults(done, rest) ==
    IF rest = <<>> THEN done
    ELSE SortResults(InsertSorted(done, Head(rest)), Tail(rest))

sort_by(results) == SortResults(<<>>, results)

\* Iterator::skip and Iterator::take
RECURSIVE skip(_, _)
skip(seq, n) == IF n = 0 \/ seq = <<>> THEN seq ELSE skip(Tail(seq), n - 1)

RECURSIVE take(_, _)
take(seq, n) == IF n = 0 \/ seq = <<>> THEN <<>> ELSE <<Head(seq)>> \o take(Tail(seq), n - 1)

\* the primary hit set of SearchEngine::search
PrimaryResults(eng, s, query_lower, options) ==
    IF ~s.exists THEN <<>>
    ELSE IF options.crate_filter # None
         THEN search_in_crate(eng, s, The(options.crate_filter), query_lower, options)
    ELSE search_all(eng, s, query_lower, options)

\* is the fuzzy search run after a primary search of this size
WantsFuzzy(primary, options) == Len(primary) < FuzzyThreshold /\ options.fuzzy

\* a merge that adds every fuzzy result
AllResults_NoDedup(eng, s, query, options) ==
    LET Merged(primary) ==
            IF WantsFuzzy(primary, options)
            THEN primary \o fuzzy_search(eng, s, to_lowercase(query), options)
            ELSE primary
    IN  sort_by(Merged(PrimaryResults(eng, s, to_lowercase(query), options)))

\* the fuzzy results whose (crate_name, path) is not among the primary ones
Deduplicated(primary, fuzzy_results) ==
    FilterSeq(fuzzy_results,
        {r \in Range(fuzzy_results) :
            <<r.crate_name, r.path>> \notin {<<x.crate_name, x.path>> : x \in Range(primary)}})

\* the result list of SearchEngine::search before pagination
AllResults(eng, s, query, options) ==
    LET Merged(primary) ==
            IF WantsFuzzy(primary, options)
            THEN primary \o Deduplicated(primary,
                                fuzzy_search(eng, s, to_lowercase(query), options))
            ELSE primary
    IN  sort_by(Merged(PrimaryResults(eng, s, to_lowercase(query), options)))

\* pagination that takes the limit before it skips the offset
Paginate_TakeThenSkip(all_results, options) ==
    skip(take(all_results, options.limit), options.offset)

Paginate(all_results, options) == take(skip(all_results, options.offset), options.limit)

\* SearchEngine::build_suggestions
build_suggestions(eng, query) ==
    LET names == [i \in 1..Len(eng.all_deps) |-> eng.all_deps[i].name]
        kept == FilterSeq(names, {n \in Range(names) : contains(n, query) /\ n # query})
    IN  take([i \in 1..Len(kept) |-> [tag |-> "crate", name |-> kept[i]]], 5)

\* the response of a call that panicked (nothing is returned)
Panicked(options) ==
    [panicked |-> TRUE, results |-> <<>>, suggestions |-> <<>>,
     pagination |-> [offset |-> options.offset, limit |-> options.limit, total |-> 0]]

\* does a call reach an overflowing score computation
SearchOverflows(eng, s, query, options) ==
    /\ options.fuzzy
    /\ FuzzyOverflows(eng, s, to_lowercase(query), options)
    /\ Len(PrimaryResults(eng, s, to_lowercase(query), options)) < FuzzyThreshold

\* Ok(SearchResponse { results, suggestions, pagination })
SearchResponse(all_results, suggestions, options) ==
    [panicked |-> FALSE,
     results |-> Paginate(all_results, options),
     suggestions |-> IF Len(all_results) < 3 THEN suggestions ELSE <<>>,
     pagination |-> [offset |-> options.offset, limit |-> options.limit,
                     total |-> Len(all_results)]]

\* SearchEngine::search in a build with or without overflow checks
SearchEngine_search(eng, s, query, options, overflow_checks) ==
    IF overflow_checks /\ SearchOverflows(eng, s, query, options)
    THEN Panicked(options)
    ELSE SearchResponse(AllResults(eng, s, query, options),
                        build_suggestions(eng, to_lowercase(query)), options)

----------------------------------------------------------------------------
(* Transactions of index_crate and batch_index.                            *)
(* A transaction in progress is [s, crate_id]: the connection's view of    *)
(* the database and the local variable crate_id.  The statements between   *)
(* BEGIN IMMEDIATE and COMMIT are executed one by one.                     *)

ParsedCrate(p, items) == [krate |-> p, items |-> items]

ParsedCrates == {ParsedCrate(p, r) : <<p, r>> \in {x \in Registry \X UNION {ParseResults(q) : q \in Registry} : x[2] \in ParseResults(x[1])}}

StmtCrate(p) == [op |-> "crate", p |-> p, item |-> None]
StmtDelete(p) == [op |-> "delete", p |-> p, item |-> None]
StmtItem(p, item) == [op |-> "item", p |-> p, item |-> item]
StmtInsert(p, item) == [op |-> "insert", p |-> p, item |-> item]

\* the statements batch_index executes for one element of the batch
CrateStmts(pc) ==
    <<StmtCrate(pc.krate), StmtDelete(pc.krate)>>
    \o [k \in 1..Len(pc.items) |-> StmtItem(pc.krate, pc.items[k])]

\* the statements of Cache::batch_index between BEGIN IMMEDIATE and COMMIT
RECURSIVE batch_index_stmts(_)
batch_index_stmts(batch) ==
    IF batch = <<>> THEN <<>>
    ELSE CrateStmts(Head(batch)) \o batch_index_stmts(Tail(batch))

\* the statements of Cache::index_crate between BEGIN IMMEDIATE and COMMIT
\* (the SELECT of the crate id reads the row just written)
index_crate_stmts(pc) ==
    <<StmtCrate(pc.krate), StmtDelete(pc.krate)>>
    \o [k \in 1..Len(pc.items) |-> StmtInsert(pc.krate, pc.items[k])]

\* BEGIN IMMEDIATE on the committed database
Begin(s) == [s |-> s, crate_id |-> 0]

\* does the statement fail on its own (constraint violation)?
StmtFails(t, st) ==
    st.op = "insert" /\ InsertItemConflicts(t.s, t.crate_id, st.item)

\* one statement inside the transaction; crate_id is last_insert_rowid()
\* (batch_index) or the selected id (index_crate) of the crates row
ExecStmt(t, st, fk) ==
    IF st.op = "crate"
    THEN [s |-> InsertOrReplaceCrate(t.s, st.p, fk), crate_id |-> NewRowid(t.s.crates)]
    ELSE IF st.op = "delete"
    THEN [t EXCEPT !.s = DeleteItemsOfCrate(t.s, t.crate_id)]
    ELSE IF st.op = "item"
    THEN [t EXCEPT !.s = InsertOrReplaceItem(t.s, t.crate_id, st.item, st.p)]
    ELSE [t EXCEPT !.s = InsertItem(t.s, t.crate_id, st.item, st.p)]

\* the first n statements of a list executed in order
RECURSIVE ExecPrefix(_, _, _, _)
ExecPrefix(t, stmts, n, fk) ==
    IF n = 0 \/ stmts = <<>> THEN t
    ELSE ExecPrefix(ExecStmt(t, Head(stmts), fk), Tail(stmts), n - 1, fk)

\* index of the first statement that fails on its own, 0 when none does
RECURSIVE FirstFailure(_, _, _, _)
FirstFailure(t, stmts, k, fk) ==
    IF stmts = <<>> THEN 0
    ELSE IF StmtFails(t, Head(stmts)) THEN k
    ELSE FirstFailure(ExecStmt(t, Head(stmts), fk), Tail(stmts), k + 1, fk)

----------------------------------------------------------------------------
(* Operations of a Cache value held by a caller (connection conn).         *)
(*   conn.open : the Cache exists                                          *)
(*   conn.txn  : the transaction a failed call left open, or None          *)
(*   conn.last : "ok" / "err", result of the last call                     *)
(*   conn.ops  : number of operations made so far                          *)

NoRun ==
    [pc |-> "idle", crates |-> <<>>, force |-> FALSE, todo |-> {}, skipped |-> 0,
     failed |-> 0, indexed |-> 0, total_items |-> 0,
     before |-> [crate_count |-> 0, item_count |-> 0], prev |-> None,
     ret |-> None, parsed |-> {}, commits |-> <<>>, stored |-> {}]

\* the values parallel_index returns: Ok(IndexStats) and Err(e), which
\* carries the error only
Ok(indexed, skipped, failed, total_items) ==
    [ok |-> TRUE, stats |-> Some([indexed |-> indexed, skipped |-> skipped,
                                  failed |-> failed, total_items |-> total_items])]
Err == [ok |-> FALSE, stats |-> None]

NoWriter == [pc |-> "off", batch |-> <<>>, t |-> None, stmts |-> <<>>, flush |-> FALSE]

Idle == run.pc \in {"idle", "done", "failed"}

\* Cache::open
Open ==
    /\ Idle
    /\ ~conn.open
    /\ db' = init_schema(db, NoFault).s
    /\ conn' = [conn EXCEPT !.open = TRUE, !.last = "ok"]
    /\ resp' = None
    /\ UNCHANGED <<foreign_keys, run, chan, writer, obs, prev>>

\* drop of the Cache: the connection closes, an open transaction is rolled back
Close ==
    /\ Idle
    /\ conn.open
    /\ conn' = [conn EXCEPT !.open = FALSE, !.txn = None]
    /\ resp' = None
    /\ UNCHANGED <<foreign_keys, db, run, chan, writer, obs, prev>>

\* a transaction made of stmts on conn; io is the statement at which an I/O
\* or lock error strikes (0: none, Len(stmts) + 1: the COMMIT)
RunTransaction(stmts, io) ==
    IF conn.txn # None
    THEN \* BEGIN IMMEDIATE inside an open transaction is an error
         /\ conn' = [conn EXCEPT !.last = "err", !.ops = @ + 1]
         /\ db' = db
    ELSE LET t0 == Begin(db)
             own == FirstFailure(t0, stmts, 1, foreign_keys)
             at == IF own # 0 /\ (io = 0 \/ own < io) THEN own ELSE io
         IN  IF at = 0
             THEN /\ db' = ExecPrefix(t0, stmts, Len(stmts), foreign_keys).s
                  /\ conn' = [conn EXCEPT !.last = "ok", !.ops = @ + 1]
             ELSE \* the error is returned with `?`: no ROLLBACK is issued
                  /\ db' = db
                  /\ conn' = [conn EXCEPT !.last = "err", !.ops = @ + 1,
                                          !.txn = Some(ExecPrefix(t0, stmts, at - 1, foreign_keys))]

\* Cache::index_crate
IndexCrate(pc, io) ==
    /\ Idle
    /\ conn.open
    /\ conn.ops < MaxOps
    /\ RunTransaction(index_crate_stmts(pc), io)
    /\ resp' = None
    /\ prev' = None
    /\ run' = NoRun
    /\ obs' = None
    /\ UNCHANGED <<foreign_keys, chan, writer>>

\* Cache::batch_index
BatchIndex(batch, io) ==
    /\ Idle
    /\ conn.open
    /\ conn.ops < MaxOps
    /\ RunTransaction(batch_index_stmts(batch), io)
    /\ resp' = None
    /\ prev' = None
    /\ run' = NoRun
    /\ obs' = None
    /\ UNCHANGED <<foreign_keys, chan, writer>>

\* Cache::clear: two statements; inside a transaction left open they change
\* the connection's view only
Clear ==
    /\ Idle
    /\ conn.open
    /\ conn.ops < MaxOps
    /\ IF conn.txn = None
       THEN /\ db' = clear(db, foreign_keys)
            /\ conn' = [conn EXCEPT !.last = "ok", !.ops = @ + 1]
       ELSE /\ db' = db
            /\ conn' = [conn EXCEPT !.last = "ok", !.ops = @ + 1,
                                    !.txn = {[t EXCEPT !.s = clear(t.s, foreign_keys)] : t \in @}]
    /\ resp' = None
    /\ prev' = None
    /\ run' = NoRun
    /\ obs' = None
    /\ UNCHANGED <<foreign_keys, chan, writer>>

\* the batches a caller hands to batch_index
Batches ==
    {<<a>> : a \in ParsedCrates}
    \cup {<<a, b>> : <<a, b>> \in {x \in ParsedCrates \X ParsedCrates : x[1].krate # x[2].krate}}

----------------------------------------------------------------------------
(* find: SearchEngine::new followed by SearchEngine::search.               *)

\* the project: resolved closure (Cargo.lock order) and direct dependencies
Engines == {[all_deps |-> <<pD1, pT1>>, direct_deps |-> {nD}]}

qEmpty == <<>>
qFoo == <<"F", "o", "o">>
qfo == <<"f", "o">>
qbar == <<"b", "a", "r">>

Queries == {qFoo, qfo, qbar}

\* limit of a call that asks for everything
Unlimited == 100

OptionSets ==
    [crate_filter : {None, Some(nT)},
     limit : {0, 2, Unlimited},
     offset : {0, 3},
     fuzzy : BOOLEAN,
     max_edit_distance : {1, 2},
     direct_only : BOOLEAN,
     kind_filter : {None, Some(kFunction)}]

\* the option sets that ask for the whole list
UnpagedOptionSets == {o \in OptionSets : o.limit = Unlimited /\ o.offset = 0}

Find(eng, query, options) ==
    /\ Idle
    /\ resp = None
    /\ \E overflow_checks \in BOOLEAN :
          \* the two builds differ only where a score computation overflows
          /\ overflow_checks => fuzzy_score(options.max_edit_distance, TRUE).panic
          /\ resp' = Some([eng |-> eng, query |-> query, options |-> options,
                           out |-> SearchEngine_search(eng, db, query, options, overflow_checks)])
    /\ UNCHANGED <<foreign_keys, db, conn, run, chan, writer, obs, prev>>

\* the caller drops the response
Forget ==
    /\ resp # None
    /\ resp' = None
    /\ UNCHANGED <<foreign_keys, db, conn, run, chan, writer, obs, prev>>

----------------------------------------------------------------------------
(* Specification of the store operations and find.                         *)


InitCommon ==
    /\ foreign_keys \in BOOLEAN
    /\ db = NoFile
    /\ conn = [open |-> FALSE, txn |-> None, last |-> "ok", ops |-> 0]
    /\ run = NoRun
    /\ chan = <<>>
    /\ writer = NoWriter
    /\ obs = None
    /\ prev = None
    /\ resp = None

NextFind ==
    \/ Open
    \/ \E batch \in Batches : Len(batch) = 1 /\ BatchIndex(batch, 0)
    \/ Clear
    \/ \E eng \in Engines, query \in Queries \cup {qEmpty}, options \in OptionSets :
          \* the empty query is asked for the whole list only
          /\ query = qEmpty => options \in UnpagedOptionSets
          /\ Find(eng, query, options)
    \/ Forget

SpecFind == InitCommon /\ [][NextFind]_vars

----------------------------------------------------------------------------
(* parallel_index (build_index): main thread, rayon parsers, writer thread. *)
(*   run.pc : "idle", "parsing" (par_iter running), "joining" (tx dropped,  *)
(*            waiting for the writer), "done" (Ok(IndexStats)), "failed"    *)
(*            (Err returned)                                                *)
(*   run.todo : elements of to_index no parser has taken yet                *)
(*   run.ret : the value returned to the caller, None while running        *)
(*   run.parsed, run.commits : history of the call: the packages whose     *)
(*            parse succeeded, the batches committed                       *)
(*   run.stored : the input packages found in the store at the start, with *)
(*            their rows                                                   *)
(*   writer.pc : "off", "recv" (in `for parsed in rx`), "begin" (calling    *)
(*            batch_index), "txn" (between BEGIN IMMEDIATE and COMMIT),     *)
(*            "done" (Ok), "err" (returned Err, connection and rx dropped)  *)

\* the crate lists a caller passes (Cargo.lock order, no package twice)
BuildInputs == {<<pT2>>, <<pD1, pT2>>}

Running == run.pc \in {"parsing", "joining"}

\* a filter that keeps every crate
to_index_All(crates, force, s) == Range(crates)

\* the filter of parallel_index: crates that need indexing
to_index(crates, force, s) ==
    {k \in Range(crates) : force \/ k \notin indexed_set(force, s)}

\* the stored rows of one package: its crates row and its items
PackageRows(s, k) ==
    [krate |-> k,
     crates |-> {c \in s.crates : c.name = k.name /\ c.version = k.version},
     items |-> JoinRows(s, k.name, k.version)]

\* the input crates that are in the store when parallel_index starts, with
\* their rows at that moment
StoredAtStart(crates, s) ==
    {PackageRows(s, k) : k \in {x \in Range(crates) : is_indexed(s, x)}}

\* entry of parallel_index: Cache::open, indexed set, filter, early return
\* or spawn of the writer.  A transaction left open by the caller's Cache
\* holds the write lock, so the open of a further connection fails.
StartBuild(crates, force) ==
    /\ Idle
    /\ conn.ops < MaxOps
    /\ conn' = [conn EXCEPT !.ops = @ + 1]
    /\ obs' = None
    /\ resp' = None
    /\ chan' = <<>>
    /\ IF conn.txn # None
       THEN /\ run' = [NoRun EXCEPT !.pc = "failed", !.crates = crates, !.force = force,
                                    !.before = stats(db), !.prev = prev,
                                    !.ret = Some(Err)]
            /\ writer' = NoWriter
            /\ db' = db
       ELSE LET s1 == init_schema(db, NoFault).s
                todo == to_index(crates, force, s1)
            IN  /\ db' = s1
                /\ run' = [NoRun EXCEPT !.pc = IF todo = {} THEN "done" ELSE "parsing",
                                        !.crates = crates, !.force = force, !.todo = todo,
                                        !.skipped = Len(crates) - Cardinality(todo),
                                        !.before = stats(s1), !.prev = prev,
                                        !.stored = StoredAtStart(crates, s1),
                                        !.ret = IF todo = {}
                                                THEN Some(Ok(0, Len(crates), 0, 0))
                                                ELSE None]
                /\ writer' = IF todo = {} THEN NoWriter ELSE [NoWriter EXCEPT !.pc = "recv"]
    /\ prev' = IF conn.txn = None /\ to_index(crates, force, init_schema(db, NoFault).s) = {}
               THEN Some([crates |-> crates, force |-> force, failed |-> 0])
               ELSE None
    /\ UNCHANGED <<foreign_keys>>

\* a parser: parse_crate succeeds and the result is sent (the send fails
\* and is ignored once the writer has dropped the receiver)
ParseOk(k, items) ==
    /\ run.pc = "parsing"
    /\ k \in run.todo
    /\ items \in ParseResults(k)
    /\ run' = [run EXCEPT !.todo = @ \ {k}, !.parsed = @ \cup {k}]
    /\ chan' = IF writer.pc = "err" THEN chan ELSE Append(chan, ParsedCrate(k, items))
    /\ obs' = None
    /\ UNCHANGED <<foreign_keys, db, conn, writer, prev, resp>>

\* a parser whose failure is not counted
ParseErr_NotCounted(k) ==
    /\ run.pc = "parsing"
    /\ k \in run.todo
    /\ run' = [run EXCEPT !.todo = @ \ {k}]
    /\ obs' = None
    /\ UNCHANGED <<foreign_keys, db, conn, chan, writer, prev, resp>>

\* a parser: parse_crate returns Err
ParseErr(k) ==
    /\ run.pc = "parsing"
    /\ k \in run.todo
    /\ run' = [run EXCEPT !.todo = @ \ {k}, !.failed = @ + 1]
    /\ obs' = None
    /\ UNCHANGED <<foreign_keys, db, conn, chan, writer, prev, resp>>

\* par_iter().for_each returns; drop(tx)
DropTx ==
    /\ run.pc = "parsing"
    /\ run.todo = {}
    /\ run' = [run EXCEPT !.pc = "joining"]
    /\ obs' = None
    /\ UNCHANGED <<foreign_keys, db, conn, chan, writer, prev, resp>>

\* writer: one iteration of `for parsed in rx`
WriterRecv ==
    /\ writer.pc = "recv"
    /\ chan # <<>>
    /\ chan' = Tail(chan)
    /\ LET batch == Append(writer.batch, Head(chan))
       IN  writer' = [writer EXCEPT !.batch = batch,
                                    !.pc = IF Len(batch) >= BATCH_SIZE THEN "begin" ELSE "recv"]
    /\ obs' = None
    /\ UNCHANGED <<foreign_keys, db, conn, run, prev, resp>>

\* a writer that exits without flushing the remaining batch
WriterDrained_NoFlush ==
    /\ writer.pc = "recv"
    /\ chan = <<>>
    /\ run.pc = "joining"
    /\ writer' = [writer EXCEPT !.pc = "done"]
    /\ obs' = None
    /\ UNCHANGED <<foreign_keys, db, conn, run, chan, prev, resp>>

\* writer: the channel is empty and the sender dropped; flush or finish
WriterDrained ==
    /\ writer.pc = "recv"
    /\ chan = <<>>
    /\ run.pc = "joining"
    /\ writer' = IF writer.batch # <<>>
                 THEN [writer EXCEPT !.pc = "begin", !.flush = TRUE]
                 ELSE [writer EXCEPT !.pc = "done"]
    /\ obs' = None
    /\ UNCHANGED <<foreign_keys, db, conn, run, chan, prev, resp>>

\* writer: BEGIN IMMEDIATE of batch_index
WriterBegin ==
    /\ writer.pc = "begin"
    /\ writer' = [writer EXCEPT !.pc = "txn", !.t = Some(Begin(db)),
                                !.stmts = batch_index_stmts(writer.batch)]
    /\ obs' = None
    /\ UNCHANGED <<foreign_keys, db, conn, run, chan, prev, resp>>

\* autocommit: every statement is visible as soon as it ran
CommittedWhileInTxn_Autocommit(committed, t) == t.s

\* what other connections see of the database after a statement of an open
\* transaction ran: the committed content, not the transaction's
CommittedWhileInTxn(committed, t) == committed

\* writer: the next statement of batch_index
WriterStmt ==
    /\ writer.pc = "txn"
    /\ writer.stmts # <<>>
    /\ LET t == ExecStmt(The(writer.t), Head(writer.stmts), foreign_keys)
       IN  /\ writer' = [writer EXCEPT !.t = Some(t), !.stmts = Tail(@)]
           /\ db' = CommittedWhileInTxn(db, t)
    /\ obs' = None
    /\ UNCHANGED <<foreign_keys, conn, run, chan, prev, resp>>

RECURSIVE SumItems(_)
SumItems(batch) ==
    IF batch = <<>> THEN 0 ELSE Len(Head(batch).items) + SumItems(Tail(batch))

\* writer: COMMIT, the counters, batch.clear()
WriterCommit ==
    /\ writer.pc = "txn"
    /\ writer.stmts = <<>>
    /\ db' = The(writer.t).s
    /\ run' = [run EXCEPT !.indexed = @ + Len(writer.batch),
                          !.total_items = @ + SumItems(writer.batch),
                          !.commits = Append(@, [i \in 1..Len(writer.batch) |->
                                                    writer.batch[i].krate])]
    /\ writer' = [writer EXCEPT !.pc = IF writer.flush THEN "done" ELSE "recv",
                                !.batch = <<>>, !.t = None]
    /\ obs' = None
    /\ UNCHANGED <<foreign_keys, conn, chan, prev, resp>>

\* writer: Cache::open, BEGIN IMMEDIATE, a statement or COMMIT returns an
\* error; the closure returns it, the connection closes (rollback) and the
\* receiver with everything still in the channel is dropped
WriterErr ==
    /\ writer.pc \in {"recv", "begin", "txn"}
    /\ writer.pc = "recv" => writer.batch = <<>> /\ run.indexed = 0
    /\ writer' = [writer EXCEPT !.pc = "err", !.t = None, !.stmts = <<>>]
    /\ chan' = <<>>
    /\ obs' = None
    /\ UNCHANGED <<foreign_keys, db, conn, run, prev, resp>>

\* writer_handle.join()?? and the IndexStats
Join ==
    /\ run.pc = "joining"
    /\ writer.pc \in {"done", "err"}
    /\ run' = [run EXCEPT !.pc = IF writer.pc = "done" THEN "done" ELSE "failed",
                          !.ret = IF writer.pc = "done"
                                  THEN Some(Ok(run.indexed, run.skipped, run.failed,
                                               run.total_items))
                                  ELSE Some(Err)]
    /\ prev' = IF writer.pc = "done"
               THEN Some([crates |-> run.crates, force |-> run.force, failed |-> run.failed])
               ELSE None
    /\ writer' = NoWriter
    /\ obs' = None
    /\ UNCHANGED <<foreign_keys, db, conn, chan, resp>>

\* what one search_crate query of a reader returns for crate k when it
\* reads the committed content s; visible records whether the crates row
\* was in that content
ReaderView(s, k) ==
    LET rows == search_crate(s, k.name, k.version)
    IN  [visible |-> is_indexed(s, k),
         paths |-> {rows[i].path : i \in 1..Len(rows)},
         count |-> Len(rows)]

\* a reader on its own connection queries the crates of the build while the
\* build is running
Reader ==
    /\ Running
    /\ obs' = Some([k \in Range(run.crates) |-> ReaderView(db, k)])
    /\ UNCHANGED <<foreign_keys, db, conn, run, chan, writer, prev, resp>>

Next ==
    \/ \E crates \in BuildInputs, force \in BOOLEAN : StartBuild(crates, force)
    \/ \E k \in Registry : \E items \in ParseResults(k) : ParseOk(k, items)
    \/ \E k \in Registry : ParseErr(k)
    \/ DropTx
    \/ WriterRecv
    \/ WriterDrained
    \/ WriterBegin
    \/ WriterStmt
    \/ WriterCommit
    \/ WriterErr
    \/ Join
    \/ Reader

Spec == InitCommon /\ [][Next]_vars

\* the steps of the threads of a running build
PipelineStep ==
    \/ \E k \in Registry : \E items \in ParseResults(k) : ParseOk(k, items)
    \/ \E k \in Registry : ParseErr(k)
    \/ DropTx
    \/ WriterRecv
    \/ WriterDrained
    \/ WriterBegin
    \/ WriterStmt
    \/ WriterCommit
    \/ WriterErr
    \/ Join

\* a build of more packages than fit one batch
MaxBuilds == 1
ManyCrates == <<pD1, pT2, pT1>>

NextBatches ==
    \/ \E force \in BOOLEAN : conn.ops < MaxBuilds /\ StartBuild(ManyCrates, force)
    \/ \E k \in Registry : \E items \in ParseResults(k) : ParseOk(k, items)
    \/ \E k \in Registry : ParseErr(k)
    \/ DropTx
    \/ WriterRecv
    \/ WriterDrained
    \/ WriterBegin
    \/ WriterStmt
    \/ WriterCommit
    \/ WriterErr
    \/ Join

SpecBatches == InitCommon /\ [][NextBatches]_vars

\* the threads are scheduled: a build that can take a step takes one
SpecBatchesFair == SpecBatches /\ WF_vars(PipelineStep)

----------------------------------------------------------------------------
(* The scoring functions of the search engine applied to drawn inputs.     *)
(*   resp.call : "score" (score_item and the direct boost), "fuzzy" (one   *)
(*               iteration of the item loop of fuzzy_search), "rank"       *)
(*               (scoring and the final sort of a list of hits)            *)

\* n copies of a character
Rep(c, n) == [i \in 1..n |-> c]

d_afoo == <<"d", ":", ":", "a", "f", "o", "o">>
t_foo19 == t_foo \o Rep("o", 19)
t_foo20 == t_foo \o Rep("o", 20)
t_Foo25 == <<"t", ":", ":", "F", "o", "o">> \o Rep("o", 25)

ScorePaths ==
    {d_foo, d_Food, d_m_foo, d_bar, d_afoo, t_fob, t_foo, t_afoo, t_foo19, t_foo20, t_Foo25}

qoo == <<"o", "o">>
qm_foo == <<"m", ":", ":", "f", "o", "o">>
qzzzzz == <<"z", "z", "z", "z", "z">>

ScoreQueries == {qEmpty, qFoo, qfo, qoo, qbar, qm_foo, qzzzzz}

EditDistances == {0, 2, 5, 6}

\* score_item on a lowercased query, and the boost
ScoreCall(path, query, is_direct) ==
    /\ resp = None
    /\ resp' = Some([call |-> "score", path |-> path, query |-> query,
                     is_direct |-> is_direct,
                     out |-> PrimaryHit(path, to_lowercase(query), is_direct)])
    /\ UNCHANGED <<foreign_keys, db, conn, run, chan, writer, obs, prev>>

\* one iteration of `for item in items` of fuzzy_search
FuzzyCall(query, path, max_edit_distance, overflow_checks) ==
    LET item_name == SplitLast(path)
        distance == levenshtein(to_lowercase(query), to_lowercase(item_name))
    IN  /\ resp = None
        /\ resp' = Some([call |-> "fuzzy", path |-> path, query |-> query,
                         max_edit_distance |-> max_edit_distance,
                         distance |-> distance,
                         admitted |-> distance <= max_edit_distance,
                         out |-> IF distance <= max_edit_distance
                                 THEN fuzzy_score(distance, overflow_checks)
                                 ELSE [panic |-> FALSE, score |-> 0]])
        /\ UNCHANGED <<foreign_keys, db, conn, run, chan, writer, obs, prev>>

\* the hits a primary search can hand to the sort: rows of direct crate d
\* and of transitive crate t
RankRows ==
    {[crate_name |-> nD, crate_version |-> 1, path |-> q, kind |-> to_lowercase(kFunction)]
        : q \in {d_foo, d_Food, d_afoo, d_m_foo}}
    \cup
    {[crate_name |-> nT, crate_version |-> 1, path |-> q, kind |-> to_lowercase(kFunction)]
        : q \in {t_foo, t_afoo, t_foo19, t_foo20}}

\* scoring of a list of hits as in search_all, then the sort of search
RankCall(eng, query, rows) ==
    LET scored == [k \in 1..Len(rows) |->
                     LET is_direct == rows[k].crate_name \in eng.direct_deps
                         hit == PrimaryHit(rows[k].path, to_lowercase(query), is_direct)
                     IN  ScoredResult(rows[k].crate_name, rows[k].crate_version, rows[k],
                                      hit.score, is_direct, hit.match_type)]
    IN  /\ resp = None
        /\ \A k \in 1..Len(scored) : scored[k].score > 0
        /\ resp' = Some([call |-> "rank", query |-> query, results |-> sort_by(scored)])
        /\ UNCHANGED <<foreign_keys, db, conn, run, chan, writer, obs, prev>>

NextScore ==
    \/ \E path \in ScorePaths, query \in ScoreQueries, is_direct \in BOOLEAN :
            ScoreCall(path, query, is_direct)
    \/ \E query \in ScoreQueries, path \in ScorePaths, m \in EditDistances,
           overflow_checks \in BOOLEAN :
            FuzzyCall(query, path, m, overflow_checks)
    \/ \E eng \in Engines, query \in {qFoo, qfo}, a, b, c \in RankRows :
            /\ a # b /\ b # c /\ a # c
            /\ RankCall(eng, query, <<a, b, c>>)
    \/ Forget

SpecScore == InitCommon /\ [][NextScore]_vars

----------------------------------------------------------------------------
(* Properties of build_index and of the store.                             *)

\* a reader's view of one package is whole or empty
WholeOrNone(k, v) ==
    \/ ~v.visible /\ v.count = 0
    \/ /\ v.visible
       /\ \E items \in ParseResults(k) :
              v.paths = PathSet(items) /\ v.count = Cardinality(PathSet(items))

\* C1: a reader that queries the cache while build_index runs sees, for each
\* package, the crates row together with every item of the package, or
\* neither the row nor any item; never a row without its items or a part of
\* the items.
C1_ReaderSeesWholeOrNone ==
    obs # None => \A k \in DOMAIN The(obs) : WholeOrNone(k, The(obs)[k])

\* C1 witness: the reader queried in the middle of the writer's transaction,
\* after the crates row of a package was written inside it, and did not see
\* the package; another package of the build it saw whole.
C1_Witness ==
    /\ obs # None
    /\ writer.pc = "txn"
    /\ \E k \in DOMAIN The(obs) :
          /\ is_indexed(The(writer.t).s, k)
          /\ ~The(obs)[k].visible
    /\ \E k \in DOMAIN The(obs) : The(obs)[k].visible /\ The(obs)[k].count > 0

\* the rows of the items table that came from package k
RowsFrom(s, k) == {r \in s.items : r.src = k}

\* the rows from package k are the rows of exactly one parse result of k
OneItemSet(s, k) ==
    \E items \in ParseResults(k) :
        /\ {r.path : r \in RowsFrom(s, k)} = PathSet(items)
        /\ Cardinality(RowsFrom(s, k)) = Cardinality(PathSet(items))

\* C2: while a forced build_index runs (so wherever it fails or is
\* interrupted), the store holds for each package of the build either no
\* rows or the rows of one item set, the old one or the new one, and never
\* rows of the old set next to rows of the new set.
C2_ForcedReindexLeavesOldOrNew ==
    (Running /\ run.force) =>
        \A k \in Range(run.crates) : RowsFrom(db, k) = {} \/ OneItemSet(db, k)

\* C3: every items row references a crates row that exists (so none points
\* at the id of a replaced crates row), has a non-empty path, and no two
\* rows share (crate_id, path).
C3_ItemsReferenceExistingCrates ==
    \A r \in db.items :
        /\ \E c \in db.crates : c.id = r.crate_id
        /\ r.path # <<>>
        /\ \A r2 \in db.items : (r2.crate_id = r.crate_id /\ r2.path = r.path) => r2 = r

\* C4: the entries of the full-text index are exactly the rows of the items
\* table, after every committed insert, replace and clear.
C4_FtsMirrorsItems ==
    db.fts = {<<r.id, r.path>> : r \in db.items}

\* the returned call repeats the successful call before it: same crate list,
\* both with force = false, nothing else done to the store in between
RepeatedCall ==
    /\ run.pc = "done"
    /\ ~run.force
    /\ run.prev # None
    /\ The(run.prev).crates = run.crates
    /\ ~The(run.prev).force

SecondCallSkipsAll ==
    /\ run.indexed = 0
    /\ run.skipped = Len(run.crates)
    /\ stats(db) = run.before

----------------------------------------------------------------------------
(* Properties of find.                                                     *)

\* the response of the same find asked for everything from offset 0
FullList(r) ==
    SearchEngine_search(r.eng, db, r.query,
                        [r.options EXCEPT !.offset = 0, !.limit = Unlimited],
                        r.out.panicked).results

\* C6: find returns exactly the elements at positions [offset, offset+limit)
\* of the one ordered list that the unpaginated call returns (nothing when
\* limit = 0 or offset >= total), and pagination.total is the length of
\* that list.
C6_PageIsSliceOfFullList ==
    \A r \in resp :
        LET full == FullList(r)
            page == r.out.results
            o == r.options
        IN  /\ r.out.pagination.total = Len(full)
            /\ Len(page) = Max2(0, Min2(o.limit, Len(full) - o.offset))
            /\ \A i \in 1..Len(page) : page[i] = full[o.offset + i]
            /\ \A i, j \in 1..Len(full) : i < j => ResultCmp(full[i], full[j]) <= 0

\* a middle page: offset 3, limit 2 of a list of five or more results
C6_Witness ==
    \E r \in resp :
        /\ r.options.offset = 3 /\ r.options.limit = 2
        /\ r.out.pagination.total >= 5
        /\ Len(r.out.results) = 2

\* C7: every result of a find with direct_only = true is from a direct
\* dependency.
C7_DirectOnlyResultsAreDirect ==
    \A r \in resp :
        r.options.direct_only =>
            \A i \in 1..Len(r.out.results) : r.out.results[i].is_direct_dep

\* C8: the match_type of every result states a relation that holds between
\* the lowercased query and the result's simple name or path.
MatchTypeHolds(x, query, options) ==
    LET q == to_lowercase(query)
        path_lower == to_lowercase(x.path)
        name == SplitLast(path_lower)
    IN  /\ x.match_type.tag = "exact" => name = q
        /\ x.match_type.tag = "prefix" => starts_with(name, q)
        /\ x.match_type.tag = "contains" => contains(name, q) \/ contains(path_lower, q)
        /\ x.match_type.tag = "fuzzy" =>
               /\ levenshtein(q, name) = x.match_type.distance
               /\ x.match_type.distance <= options.max_edit_distance

C8_MatchTypeExplainsResult ==
    \A r \in resp :
        \A i \in 1..Len(r.out.results) : MatchTypeHolds(r.out.results[i], r.query, r.options)

\* C9: a result with match_type fuzzy is returned only when fuzzy is enabled
\* and the primary hit set has fewer than 5 results, and its distance is at
\* most max_edit_distance.
C9_FuzzyOnlyBelowFiveHits ==
    \A r \in resp :
        LET primary == PrimaryResults(r.eng, db, to_lowercase(r.query), r.options)
        IN  \A i \in 1..Len(r.out.results) :
                r.out.results[i].match_type.tag = "fuzzy" =>
                    /\ r.options.fuzzy
                    /\ Len(primary) < 5
                    /\ r.out.results[i].match_type.distance <= r.options.max_edit_distance

\* fuzzy is enabled, the store holds an item within the edit distance that
\* is no primary hit, and the primary hit set has five results
C9_Witness ==
    \E r \in resp :
        /\ r.options.fuzzy
        /\ r.options.limit = Unlimited /\ r.options.offset = 0
        /\ Len(PrimaryResults(r.eng, db, to_lowercase(r.query), r.options)) >= 5
        /\ \E x \in Range(fuzzy_search(r.eng, db, to_lowercase(r.query), r.options)) :
              \A y \in Range(r.out.results) : y.path # x.path

\* C10: every result of a find with kind_filter = k has kind k (ASCII case
\* ignored).
C10_KindFilterHolds ==
    \A r \in resp :
        r.options.kind_filter # None =>
            \A i \in 1..Len(r.out.results) :
                eq_ignore_ascii_case(r.out.results[i].kind, The(r.options.kind_filter))

----------------------------------------------------------------------------
(* Properties of the pipeline of build_index.                              *)

\* C16: the channel between parsers and writer is bounded, a parser blocks
\* on send while it is full, and a failed writer halts the parsers: once
\* the writer has failed, no parser takes a further package.
C16_FailedWriterHaltsParsers ==
    [][writer.pc = "err" => run'.todo = run.todo]_vars

\* the places of package k in the committed batches of the call
CommitsOf(k) ==
    {<<b, i>> \in (1..Len(run.commits)) \X (1..BATCH_SIZE) :
        i <= Len(run.commits[b]) /\ run.commits[b][i] = k}

\* every package parsed successfully was committed exactly once, is stored,
\* and no transaction held more than BATCH_SIZE packages
CommittedOnce ==
    /\ \A k \in run.parsed : Cardinality(CommitsOf(k)) = 1 /\ is_indexed(db, k)
    /\ \A b \in 1..Len(run.commits) : Len(run.commits[b]) <= BATCH_SIZE
    /\ The(run.ret) = Ok(Cardinality(run.parsed), run.skipped, run.failed, run.total_items)

\* C17: with the threads scheduled fairly every build_index call returns,
\* also when the writer fails while parsers are still sending; and when it
\* returns Ok, every package that was parsed successfully has been
\* committed exactly once, in transactions of at most BATCH_SIZE packages
\* (the last one a flushed partial batch).
C17_BuildTerminatesCommittedOnce ==
    /\ Running ~> ~Running
    /\ [](run.pc = "done" => CommittedOnce)

\* C17 witness: a call returned Ok after committing at least two parsed
\* packages, the last of them in a flushed partial batch.
C17_Witness ==
    /\ run.pc = "done"
    /\ run.ret # None
    /\ The(run.ret).ok
    /\ Cardinality(run.parsed) >= 2
    /\ \E i \in 1..Len(run.commits) : Len(run.commits[i]) < BATCH_SIZE

\* C18: a build that fails in a writer transaction after a batch has been
\* committed still returns the counts of packages indexed and failed so far,
\* and the packages of the committed batches are in the store.
C18_FailedBuildReportsCounts ==
    (run.pc = "failed" /\ run.commits # <<>>) =>
        /\ The(run.ret).stats # None
        /\ \A b \in 1..Len(run.commits) :
              \A i \in 1..Len(run.commits[b]) : is_indexed(db, run.commits[b][i])

----------------------------------------------------------------------------
(* The operations of one Cache value, with statements that can fail.       *)

\* position of the statement at which the database returns an I/O or
\* contention error to the call, 0 for none
IoFailures == 0..2

NextStore ==
    \/ Open
    \/ Close
    \/ \E pc \in ParsedCrates, io \in IoFailures : IndexCrate(pc, io)
    \/ \E batch \in Batches, io \in IoFailures : BatchIndex(batch, io)
    \/ Clear

SpecStore == InitCommon /\ [][NextStore]_vars

\* what a statement on the caller's connection reads: the content of its
\* open transaction if it has one, else the committed content
ConnView == IF conn.txn # None THEN The(conn.txn).s ELSE db

\* C19: after a statement inside batch_index or index_crate failed, the
\* transaction is aborted: the connection of the call sees the store as it
\* was before the call, with no row of the failed call, and it has no open
\* transaction, so that a later batch_index or index_crate can begin one.
C19_FailedCallAborts ==
    conn.last = "err" => (conn.txn = None /\ ConnView = db)

----------------------------------------------------------------------------
(* Properties of the scoring functions.                                    *)

\* the simple name of a path: what follows the last "::", the whole path
\* when there is none
SimpleName(path) ==
    IF \E i \in 1..(Len(path) - 1) : path[i] = ":" /\ path[i + 1] = ":"
    THEN LET m == CHOOSE i \in 1..(Len(path) - 1) :
                    /\ path[i] = ":" /\ path[i + 1] = ":"
                    /\ \A j \in (i + 1)..(Len(path) - 1) : ~(path[j] = ":" /\ path[j + 1] = ":")
         IN  [k \in 1..(Len(path) - m - 1) |-> path[m + 1 + k]]
    ELSE path

\* text occurs in s at position i
OccursAt(s, text, i) ==
    /\ i + Len(text) - 1 <= Len(s)
    /\ \A k \in 1..Len(text) : s[i + k - 1] = text[k]

Occurs(s, text) == \E i \in 1..(Len(s) + 1) : OccursAt(s, text, i)

\* the table of primary scores
TableScore(path, query) ==
    LET name == to_lowercase(SimpleName(path))
        q == to_lowercase(query)
    IN  IF name = q THEN 100
        ELSE IF OccursAt(name, q, 1) THEN 80 - Min2(20, Len(name) - Len(q))
        ELSE IF Occurs(name, q) THEN 50
        ELSE IF Occurs(to_lowercase(path), q) THEN 30
        ELSE 0

\* C11: the primary score of a path for a query is the value of the table
\* (100 equal, 80 - min(20, excess length) prefix, 50 name contains, 30 path
\* contains, else 0, on the lowercased simple name and query), plus 10
\* exactly when the hit's package is a direct dependency.
C11_PrimaryScoreFollowsTable ==
    \A r \in resp :
        r.call = "score" =>
            r.out.score = TableScore(r.path, r.query) + (IF r.is_direct THEN 10 ELSE 0)

\* C11 witness: a prefix hit of a direct dependency whose name is more than
\* 20 characters longer than the query: 80 - 20 + 10.
C11_Witness ==
    \E r \in resp :
        /\ r.call = "score"
        /\ r.is_direct
        /\ r.out.match_type = Prefix
        /\ Len(SimpleName(r.path)) - Len(r.query) > 20
        /\ r.out.score = 70

\* rank of a match type: exact above prefix above contains
Tier(x) ==
    IF x.match_type = Exact THEN 3 ELSE IF x.match_type = Prefix THEN 2 ELSE 1

\* C12 as stated: in the ordered results every exact match precedes every
\* prefix match and every prefix match precedes every contains match, for
\* all mixes of direct and transitive packages and all name lengths.
C12_TiersInOrder_AsStated ==
    \A r \in resp :
        r.call = "rank" =>
            \A i, j \in 1..Len(r.results) :
                Tier(r.results[i]) > Tier(r.results[j]) => i < j

\* a prefix match of a transitive package whose name is 20 or more
\* characters longer than the query, against a contains match in the simple
\* name of an item of a direct package: both score 60
SameScoreAcrossTiers(x, y, query) ==
    /\ x.match_type = Prefix /\ ~x.is_direct_dep
    /\ Len(SimpleName(x.path)) - Len(query) >= 20
    /\ y.match_type = Contains /\ y.is_direct_dep
    /\ Occurs(to_lowercase(SimpleName(y.path)), to_lowercase(query))

\* C12 amended: every exact match precedes every prefix and every contains
\* match, and a prefix match precedes a contains match except when the
\* prefix match is of a transitive package with a name 20 or more
\* characters longer than the query and the contains match is in the simple
\* name of an item of a direct package (both then score 60 and are ordered
\* by path).
C12_TiersInOrder ==
    \A r \in resp :
        r.call = "rank" =>
            \A i, j \in 1..Len(r.results) :
                (/\ Tier(r.results[i]) > Tier(r.results[j])
                 /\ ~SameScoreAcrossTiers(r.results[i], r.results[j], r.query))
                    => i < j

\* C12 witness: an exact match of a transitive package, then a prefix match
\* and a contains match of a direct package.
C12_Witness ==
    \E r \in resp :
        /\ r.call = "rank"
        /\ r.results[1].match_type = Exact /\ ~r.results[1].is_direct_dep
        /\ r.results[2].match_type = Prefix /\ r.results[2].is_direct_dep
        /\ r.results[3].match_type = Contains /\ r.results[3].is_direct_dep

\* C13: an admitted fuzzy result with edit distance d scores
\* max(10, 100 - 25 d), a value in 10..100, for every configured
\* max_edit_distance, and computing it never underflows, wraps or panics.
C13_FuzzyScoreInRange ==
    \A r \in resp :
        (r.call = "fuzzy" /\ r.admitted) =>
            /\ ~r.out.panic
            /\ r.out.score = Max2(10, 100 - 25 * r.distance)
            /\ r.out.score \in 10..100

----------------------------------------------------------------------------
(* Further properties of find.                                             *)

\* C14: no two results of find are the same path of the same package, and
\* an item that the primary search and the fuzzy fallback both find appears
\* once, with the score and match type of the primary search.
C14_NoDuplicatePrimaryWins ==
    \A r \in resp :
        LET full == FullList(r)
            primary == PrimaryResults(r.eng, db, to_lowercase(r.query), r.options)
        IN  /\ \A i, j \in 1..Len(full) :
                  (/\ full[i].crate_name = full[j].crate_name
                   /\ full[i].crate_version = full[j].crate_version
                   /\ full[i].path = full[j].path) => i = j
            /\ \A i \in 1..Len(full) :
                  (\E p \in Range(primary) :
                        p.crate_name = full[i].crate_name /\ p.path = full[i].path)
                    => /\ full[i] \in Range(primary)
                       /\ full[i].match_type.tag # "fuzzy"

\* C14 witness: the fuzzy fallback ran, found an item the primary search
\* had found and one it had not; the list has the first once, as a primary
\* hit, and the second as a fuzzy hit.
C14_Witness ==
    \E r \in resp :
        LET full == FullList(r)
            primary == PrimaryResults(r.eng, db, to_lowercase(r.query), r.options)
            fuzzy_results == fuzzy_search(r.eng, db, to_lowercase(r.query), r.options)
        IN  /\ r.options.fuzzy
            /\ Len(primary) < 5
            /\ \E f \in Range(fuzzy_results), p \in Range(primary) :
                  /\ f.crate_name = p.crate_name /\ f.path = p.path
                  /\ Cardinality({i \in 1..Len(full) : full[i].path = p.path}) = 1
            /\ \E i \in 1..Len(full) : full[i].match_type.tag = "fuzzy"

\* C15: find with the empty query returns an empty result list, total 0,
\* also with crate_filter set and with fuzzy matching enabled.
C15_EmptyQueryEmptyResult ==
    \A r \in resp :
        r.query = <<>> => r.out.results = <<>> /\ r.out.pagination.total = 0

\* C20: when the cache file does not exist find returns, without an error,
\* an empty result list and a suggestion to build the index.
C20_NoCacheSuggestsBuild ==
    \A r \in resp :
        ~db.exists =>
            /\ ~r.out.panicked
            /\ r.out.results = <<>>
            /\ \E i \in 1..Len(r.out.suggestions) : r.out.suggestions[i].tag = "build"

----------------------------------------------------------------------------
(* Specification of Cache::open over stores of earlier schema versions.    *)

\* a store written before the v2 schema: version row absent (read as 0) or
\* 1, the crates and items of one indexed package or none, no FTS index
LegacyStore(v, batch) ==
    [ExecPrefix(Begin([NoFile EXCEPT !.exists = TRUE]), batch_index_stmts(batch),
                Len(batch_index_stmts(batch)), FALSE).s
        EXCEPT !.schema_version = v, !.fts = {}]

LegacyBatches == {<<>>} \cup {<<pc>> : pc \in {x \in ParsedCrates : x.krate = pT1}}

StartStores == {NoFile} \cup {LegacyStore(v, batch) : v \in 0..(SCHEMA_VERSION - 1), batch \in LegacyBatches}

\* Cache::open with an error at one statement of init_schema or none; obs
\* keeps what the call did and the version it found
CacheOpen(fault) ==
    /\ Idle
    /\ ~conn.open
    /\ db' = init_schema(db, fault).s
    /\ conn' = [conn EXCEPT !.open = init_schema(db, fault).ok,
                            !.last = IF init_schema(db, fault).ok THEN "ok" ELSE "err"]
    /\ obs' = Some([call |-> "open", before |-> db.schema_version,
                    ok |-> init_schema(db, fault).ok,
                    migrated |-> init_schema(db, fault).migrated,
                    rebuilt |-> init_schema(db, fault).rebuilt])
    /\ resp' = None
    /\ UNCHANGED <<foreign_keys, run, chan, writer, prev>>

InitSchema ==
    /\ foreign_keys \in BOOLEAN
    /\ db \in StartStores
    /\ conn = [open |-> FALSE, txn |-> None, last |-> "ok", ops |-> 0]
    /\ run = NoRun
    /\ chan = <<>>
    /\ writer = NoWriter
    /\ obs = None
    /\ prev = None
    /\ resp = None

NextSchema ==
    \/ \E fault \in Faults : CacheOpen(fault)
    \/ Close
    \/ \E batch \in Batches : Len(batch) = 1 /\ BatchIndex(batch, 0)
    \/ Clear

SpecSchema == InitSchema /\ [][NextSchema]_vars

\* C21: a successful open leaves the stored schema_version at the compiled-in
\* version; no open lowers it; an open of a store already at version 2 does
\* not run the v1-to-v2 migration (no FTS rebuild); a failed open leaves the
\* stored version as it found it.
C21_OpenIsForwardOnlyIdempotent ==
    /\ conn.open => db.schema_version = SCHEMA_VERSION
    /\ \A o \in obs :
          /\ db.schema_version >= o.before
          /\ o.before = SCHEMA_VERSION => ~o.migrated /\ ~o.rebuilt
          /\ ~o.ok => db.schema_version = o.before

----------------------------------------------------------------------------
\* C22: in a call with force = false a package that is in the store when the
\* call starts is neither parsed nor written: it is never handed to a parser,
\* its crates row and its items stay as they were, and a call that returns
\* its counts has counted it in skipped.
C22_StoredPackagesAreSkipped ==
    ~run.force =>
        /\ \A x \in run.stored :
              /\ x.krate \notin run.todo \cup run.parsed
              /\ PackageRows(db, x.krate) = x
        /\ \A ret \in run.ret :
              ret.ok => The(ret.stats).skipped = Cardinality(run.stored)

\* C22 witness: a call without force returned after it skipped a stored
\* package and indexed another one.
C22_Witness ==
    /\ run.pc = "done"
    /\ ~run.force
    /\ run.stored # {}
    /\ run.indexed > 0

----------------------------------------------------------------------------
\* the paths search_crate returns, in order
ReturnedPaths(s, k) ==
    [i \in 1..Len(search_crate(s, k.name, k.version)) |->
        search_crate(s, k.name, k.version)[i].path]

\* the paths the extractor emitted for a parsed crate
EmittedPaths(pc) == {pc.items[i].path : i \in 1..Len(pc.items)}

\* a sequence that holds every element of a set once and nothing else
ListsOnce(seq, set) ==
    /\ Range(seq) = set
    /\ Len(seq) = Cardinality(set)

\* C23: when the writer of build_index commits a batch, search_crate(name,
\* version) of each package of the batch returns every path the extractor
\* emitted for it exactly once and no other path, also when a path was
\* emitted more than once.
C23_CommittedPathsAreEmittedPaths ==
    [][(writer.pc = "txn" /\ writer'.pc \in {"recv", "done"}) =>
          \A i \in 1..Len(writer.batch) :
              ListsOnce(ReturnedPaths(db', writer.batch[i].krate),
                        EmittedPaths(writer.batch[i]))]_vars

\* C23 witness: a package whose extractor emitted three items with two
\* distinct paths is committed and read back with two rows.
C23_Witness ==
    /\ run.indexed > 0
    /\ pD1 \in run.parsed
    /\ is_indexed(db, pD1)
    /\ Len(ReturnedPaths(db, pD1)) = 2

----------------------------------------------------------------------------
(* SearchEngine::detect_reexport_crate on the lines of src/lib.rs.         *)

\* str::trim on lines whose only white space is the blank
RECURSIVE trim_start(_)
trim_start(l) == IF l # <<>> /\ Head(l) = " " THEN trim_start(Tail(l)) ELSE l

RECURSIVE trim_end(_)
trim_end(l) ==
    IF l # <<>> /\ l[Len(l)] = " " THEN trim_end(SubSeq(l, 1, Len(l) - 1)) ELSE l

trim(l) == trim_end(trim_start(l))

sComment == <<"/", "/">>
sHash == <<"#">>
sPubUse == <<"p", "u", "b", " ", "u", "s", "e">>
sPubExternCrate ==
    <<"p", "u", "b", " ", "e", "x", "t", "e", "r", "n", " ", "c", "r", "a", "t", "e">>

\* the lines the filter keeps: not a comment, not an attribute, not blank
CodeLines(content) ==
    FilterSeq(content,
        {l \in Range(content) :
            /\ ~starts_with(trim(l), sComment)
            /\ ~starts_with(trim(l), sHash)
            /\ trim(l) # <<>>})

\* the number of kept lines that contain "pub use" or "pub extern crate"
ReexportCount(lines) ==
    Cardinality({i \in 1..Len(lines) :
        contains(lines[i], sPubUse) \/ contains(lines[i], sPubExternCrate)})

\* the file is "very short"
SHORT_FILE == 20

\* the test on the kept lines; lines.len() / 2 is the integer division
MostlyReexports(lines) ==
    /\ Len(lines) < SHORT_FILE
    /\ ReexportCount(lines) > 0
    /\ ReexportCount(lines) >= Len(lines) \div 2

\* SearchEngine::detect_reexport_crate; content is None when src/lib.rs
\* cannot be read
detect_reexport_crate(content) ==
    IF content = None THEN FALSE ELSE MostlyReexports(CodeLines(The(content)))

\* lines of a root file
lBlank == <<>>
lSpaces == <<" ", " ">>
lComment == sComment \o <<" ", "c">>
lAttribute == <<"#", "!", "[", "a", "]">>
lUse == sPubUse \o <<" ", "a", ":", ":", "*", ";">>
lUseIndented == <<" ", " ">> \o sPubUse \o <<" ", "b", ";">>
lExtern == sPubExternCrate \o <<" ", "c", ";">>
lMod == <<"m", "o", "d", " ", "m", ";">>

MaxReexports == 11
MaxOtherLines == 11

\* a root file: comments, attributes and blank lines around n_use re-export
\* lines (the first indented, the second an extern crate) and n_other lines
\* of other code
ReexportLines(n_use) ==
    [i \in 1..n_use |-> IF i = 1 THEN lUseIndented ELSE IF i = 2 THEN lExtern ELSE lUse]

RootFile(n_use, n_other, annotated) ==
    (IF annotated THEN <<lComment, lAttribute, lBlank>> ELSE <<>>)
    \o ReexportLines(n_use)
    \o (IF annotated THEN <<lSpaces, lComment>> ELSE <<>>)
    \o Rep(lMod, n_other)

RootFiles ==
    {None} \cup {Some(RootFile(n_use, n_other, annotated)) :
                    n_use \in 0..MaxReexports, n_other \in 0..MaxOtherLines,
                    annotated \in BOOLEAN}

\* get_crate_info: is_reexport of the crate whose root file is content
ExpandCall(content) ==
    /\ resp = None
    /\ resp' = Some([call |-> "expand", content |-> content,
                     is_reexport |-> detect_reexport_crate(content)])
    /\ UNCHANGED <<foreign_keys, db, conn, run, chan, writer, obs, prev>>

NextExpand ==
    \/ \E content \in RootFiles : ExpandCall(content)
    \/ Forget

SpecExpand == InitCommon /\ [][NextExpand]_vars

\* the remaining lines of a root file: it without its blank lines, comment
\* lines and attribute lines
Remaining(file) ==
    {i \in 1..Len(file) : file[i] \notin {lBlank, lSpaces, lComment, lAttribute}}

\* the re-export statements of a root file
ReexportStatements(file) ==
    {i \in 1..Len(file) : file[i] \in {lUse, lUseIndented, lExtern}}

\* C24: a package is classified as a re-export package exactly when its root
\* file has fewer than 20 remaining lines and at least half of them are
\* re-export statements (4 of 5: true; 2 of 5: false).  Stated for files with
\* at least one remaining line.
C24_ReexportWhenAtLeastHalf ==
    \A r \in resp :
        (r.content # None /\ Remaining(The(r.content)) # {}) =>
            (r.is_reexport <=>
                /\ Cardinality(Remaining(The(r.content))) < SHORT_FILE
                /\ 2 * Cardinality(ReexportStatements(The(r.content)))
                       >= Cardinality(Remaining(The(r.content))))

----------------------------------------------------------------------------
(* Specification of find over a project with many dependencies.            *)

\* dependencies that are not indexed; their names contain "d"
Dep(name) == [name |-> name, version |-> 1]
nDT == <<"d", "t">>
nTD == <<"t", "d">>
nDD == <<"d", "d">>
nDDT == <<"d", "d", "t">>
nTDD == <<"t", "d", "d">>
nDTD == <<"d", "t", "d">>

SuggestEngines ==
    Engines \cup
    {[all_deps |-> <<pD1, pT1, Dep(nDT), Dep(nTD), Dep(nDD), Dep(nDDT), Dep(nTDD), Dep(nDTD)>>,
      direct_deps |-> {nD}]}

\* queries that are the name of a dependency, part of several names, or
\* neither
SuggestQueries == {nD, nT, nDD, qfo}

NextSuggest ==
    \/ Open
    \/ \E batch \in Batches : Len(batch) = 1 /\ BatchIndex(batch, 0)
    \/ \E eng \in SuggestEngines, query \in SuggestQueries, options \in UnpagedOptionSets :
          Find(eng, query, options)
    \/ Forget

SpecSuggest == InitCommon /\ [][NextSuggest]_vars

\* "crate:<name>" for every dependency whose name contains the query, in the
\* order of the dependencies
CrateSuggestions(eng, query) ==
    LET names == [i \in 1..Len(eng.all_deps) |-> eng.all_deps[i].name]
        kept == FilterSeq(names, {n \in Range(names) : contains(n, query)})
    IN  [i \in 1..Len(kept) |-> [tag |-> "crate", name |-> kept[i]]]

\* C25: find returns suggestions only when the final result count is below
\* 3; then they are "crate:<name>" for every dependency whose name contains
\* the query, cut to at most 5; with 3 or more results the list is empty.
C25_SuggestionsWhenFewResults ==
    \A r \in resp :
        ~r.out.panicked =>
            r.out.suggestions =
                IF r.out.pagination.total < 3
                THEN take(CrateSuggestions(r.eng, to_lowercase(r.query)), 5)
                ELSE <<>>

----------------------------------------------------------------------------
(* RustParser::extract_items on the declarations of one source file.       *)
(* A declaration is [tag, name, trait, methods, body]:                     *)
(*   "struct", "fn" : an item named name                                   *)
(*   "impl" : an impl block; name is what find_impl_type returns (None     *)
(*            when it finds no type), trait what find_impl_trait returns,  *)
(*            methods the function_items of its declaration_list           *)
(*   "mod"  : an inline module named name with the declarations body       *)

Decl(tag, name, trait, methods, body) ==
    [tag |-> tag, name |-> name, trait |-> trait, methods |-> methods, body |-> body]

\* Visibility as get_visibility returns it
Public == "public"
Crate == "crate"
Private == "private"

Method(name, visibility) == [name |-> name, visibility |-> visibility]

sColons == <<":", ":">>

format_path(module_path, name) ==
    IF module_path = <<>> THEN name ELSE module_path \o sColons \o name

\* the Item of parse_struct, parse_function and parse_mod: no methods, no
\* traits
NewItem(path, kind) == [path |-> path, kind |-> kind, methods |-> <<>>, traits |-> <<>>]

\* items.iter_mut().find(|i| i.path == type_path): the index of the first
\* item with the path, 0 when there is none
FindPath(items, type_path) ==
    IF \E i \in 1..Len(items) : items[i].path = type_path
    THEN CHOOSE i \in 1..Len(items) :
            /\ items[i].path = type_path
            /\ \A j \in 1..(i - 1) : items[j].path # type_path
    ELSE 0

\* the methods of an impl block that parse_impl pushes: the public ones of
\* an inherent impl, in order
PushedMethods(decl) ==
    IF decl.trait # None THEN <<>>
    ELSE FilterSeq(decl.methods, {m \in Range(decl.methods) : m.visibility = Public})

\* item.traits after `if !item.traits.contains(trait_name) { push }`
PushTrait(traits, trait) ==
    IF trait = None \/ The(trait) \in Range(traits) THEN traits
    ELSE Append(traits, The(trait))

\* the item at index at receives the methods and the trait of the block
Attach(items, at, decl) ==
    IF at = 0 THEN items
    ELSE [items EXCEPT ![at] = [@ EXCEPT !.methods = @ \o PushedMethods(decl),
                                         !.traits = PushTrait(@, decl.trait)]]

\* a parse_impl that emits an item for a type it does not find
parse_impl_EmitsType(decl, module_path, items) ==
    IF decl.name = None THEN items
    ELSE IF FindPath(items, format_path(module_path, The(decl.name))) = 0
    THEN Append(items, NewItem(format_path(module_path, The(decl.name)), "struct"))
    ELSE Attach(items, FindPath(items, format_path(module_path, The(decl.name))), decl)

\* RustParser::parse_impl
parse_impl(decl, module_path, items) ==
    IF decl.name = None THEN items
    ELSE Attach(items, FindPath(items, format_path(module_path, The(decl.name))), decl)

\* RustParser::process_impls: the impl blocks among the children, in order
RECURSIVE process_impls(_, _, _)
process_impls(decls, module_path, items) ==
    IF decls = <<>> THEN items
    ELSE process_impls(Tail(decls), module_path,
            IF Head(decls).tag = "impl" THEN parse_impl(Head(decls), module_path, items)
            ELSE items)

\* RustParser::collect_definitions; parse_mod pushes the module and runs
\* both passes on its declaration_list
RECURSIVE collect_definitions(_, _, _)
parse_mod(decl, module_path, items) ==
    process_impls(decl.body, format_path(module_path, The(decl.name)),
        collect_definitions(decl.body, format_path(module_path, The(decl.name)),
            Append(items, NewItem(format_path(module_path, The(decl.name)), "module"))))

collect_definitions(decls, module_path, items) ==
    IF decls = <<>> THEN items
    ELSE collect_definitions(Tail(decls), module_path,
            IF Head(decls).tag \in {"struct", "fn"}
            THEN Append(items, NewItem(format_path(module_path, The(Head(decls).name)),
                                       Head(decls).tag))
            ELSE IF Head(decls).tag = "mod" THEN parse_mod(Head(decls), module_path, items)
            ELSE items)

\* an extraction in one pass: an impl block is handled where it stands
RECURSIVE OnePass(_, _, _)
OnePass(decls, module_path, items) ==
    IF decls = <<>> THEN items
    ELSE OnePass(Tail(decls), module_path,
            IF Head(decls).tag = "impl" THEN parse_impl(Head(decls), module_path, items)
            ELSE collect_definitions(<<Head(decls)>>, module_path, items))

extract_items_OnePass(decls, module_path) == OnePass(decls, module_path, <<>>)

\* RustParser::extract_items
extract_items(decls, module_path) ==
    process_impls(decls, module_path, collect_definitions(decls, module_path, <<>>))

----------------------------------------------------------------------------
(* Specification of the extraction of one source file.                     *)

nA == <<"A">>
nC == <<"C">>
nF == <<"f">>
nM == <<"m">>
tT == <<"T">>
tU == <<"U">>
m1 == <<"m", "1">>
m2 == <<"m", "2">>
m3 == <<"m", "3">>
m4 == <<"m", "4">>
m5 == <<"m", "5">>

\* struct A;  fn f() {}
dStructA == Decl("struct", Some(nA), None, <<>>, <<>>)
dFnF == Decl("fn", Some(nF), None, <<>>, <<>>)
\* impl A { pub fn m1(); fn m2(); pub(crate) fn m3(); }   impl A { pub fn m4(); }
dImplA == Decl("impl", Some(nA), None,
               <<Method(m1, Public), Method(m2, Private), Method(m3, Crate)>>, <<>>)
dImplA4 == Decl("impl", Some(nA), None, <<Method(m4, Public)>>, <<>>)
\* impl T for A { fn m5(); }   impl U for A {}
dImplTforA == Decl("impl", Some(nA), Some(tT), <<Method(m5, Private)>>, <<>>)
dImplUforA == Decl("impl", Some(nA), Some(tU), <<>>, <<>>)
\* impl C { pub fn m1(); }   impl T for C {}   impl T for &A {}: C is not
\* declared in the file, &A is no type find_impl_type accepts
dImplC == Decl("impl", Some(nC), None, <<Method(m1, Public)>>, <<>>)
dImplTforC == Decl("impl", Some(nC), Some(tT), <<>>, <<>>)
dImplTforRef == Decl("impl", None, Some(tT), <<>>, <<>>)
\* mod m { impl A { pub fn m4(); }  struct A;  impl T for A {}  impl C { .. } }
dModM == Decl("mod", Some(nM), None, <<>>, <<dImplA4, dStructA, dImplTforA, dImplC>>)

Decls ==
    {dStructA, dFnF, dImplA, dImplA4, dImplTforA, dImplUforA, dImplC, dImplTforC,
     dImplTforRef, dModM}

MaxDecls == 3

\* the source files: up to MaxDecls declarations, no item declared twice
SourceFiles ==
    {f \in UNION {[1..n -> Decls] : n \in 1..MaxDecls} :
        \A i, j \in 1..Len(f) : (i # j /\ f[i].tag # "impl") => f[i] # f[j]}

ModulePaths == {<<>>, <<"k">>}

\* RustParser::parse_source
ExtractCall(file, module_path) ==
    /\ resp = None
    /\ resp' = Some([call |-> "extract", file |-> file, module_path |-> module_path,
                     out |-> extract_items(file, module_path)])
    /\ UNCHANGED <<foreign_keys, db, conn, run, chan, writer, obs, prev>>

NextExtract ==
    \/ \E file \in SourceFiles, module_path \in ModulePaths : ExtractCall(file, module_path)
    \/ Forget

SpecExtract == InitCommon /\ [][NextExtract]_vars

\* the impl blocks of a declaration list whose target is a type name
ImplsFor(decls, name) ==
    FilterSeq(decls, {d \in Range(decls) : d.tag = "impl" /\ d.name = Some(name)})

\* the public methods of the inherent blocks among impl blocks, in order
RECURSIVE InherentPublicMethods(_)
InherentPublicMethods(impls) ==
    IF impls = <<>> THEN <<>>
    ELSE (IF Head(impls).trait = None
          THEN FilterSeq(Head(impls).methods,
                         {m \in Range(Head(impls).methods) : m.visibility = Public})
          ELSE <<>>)
         \o InherentPublicMethods(Tail(impls))

\* the traits the impl blocks implement, each once, in order of appearance
RECURSIVE ImplementedTraits(_, _)
ImplementedTraits(impls, seen) ==
    IF impls = <<>> THEN seen
    ELSE ImplementedTraits(Tail(impls),
            IF Head(impls).trait = None \/ The(Head(impls).trait) \in Range(seen) THEN seen
            ELSE Append(seen, The(Head(impls).trait)))

\* the modules of an extracted file with their declarations: the file and
\* its inline modules
Scopes(r) ==
    {[path |-> r.module_path, decls |-> r.file]}
    \cup {[path |-> format_path(r.module_path, The(d.name)), decls |-> d.body] :
            d \in {x \in Range(r.file) : x.tag = "mod"}}

\* C26: wherever the impl blocks of a type stand relative to its
\* declaration, the type's Item lists the public methods of all inherent impl
\* blocks for that type name in the same module, in source order, and the
\* implemented traits once each.
C26_ImplsAttachAnyOrder ==
    \A r \in resp : \A sc \in Scopes(r) : \A i \in 1..Len(r.out) :
        (r.out[i].kind = "struct" /\ r.out[i].path = format_path(sc.path, nA)) =>
            /\ r.out[i].methods = InherentPublicMethods(ImplsFor(sc.decls, nA))
            /\ r.out[i].traits = ImplementedTraits(ImplsFor(sc.decls, nA), <<>>)

\* C26 witness: a file in which an inherent impl block and a trait impl
\* block of A stand before the declaration of A; the Item of A has the
\* public method of the first and the trait of the second.
C26_Witness ==
    \E r \in resp :
        /\ r.file = <<dImplA, dImplTforA, dStructA>>
        /\ \E i \in 1..Len(r.out) :
              /\ r.out[i].path = format_path(r.module_path, nA)
              /\ r.out[i].methods = <<Method(m1, Public)>>
              /\ r.out[i].traits = <<tT>>

\* the file without its j-th declaration
RemoveAt(file, j) == SubSeq(file, 1, j - 1) \o SubSeq(file, j + 1, Len(file))

\* an impl block whose target matches no item of the first pass in its module
Unmatched(decl, file, module_path) ==
    /\ decl.tag = "impl"
    /\ \/ decl.name = None
       \/ \A i \in 1..Len(collect_definitions(file, module_path, <<>>)) :
             collect_definitions(file, module_path, <<>>)[i].path
                # format_path(module_path, The(decl.name))

\* C27: an impl block whose target matches no Item of the first pass is
\* dropped: the extraction emits exactly the items it emits for the file
\* without that block.
C27_UnknownTargetIsDropped ==
    \A r \in resp : \A j \in 1..Len(r.file) :
        Unmatched(r.file[j], r.file, r.module_path) =>
            r.out = extract_items(RemoveAt(r.file, j), r.module_path)

\* C27 witness: a file with an inherent impl block for the undeclared C, with
\* a public method, next to a type that received a method.
C27_Witness ==
    \E r \in resp :
        /\ \E j \in 1..Len(r.file) : r.file[j] = dImplC
        /\ \E i \in 1..Len(r.out) : r.out[i].methods # <<>>

----------------------------------------------------------------------------
\* C28: on every successful return of parallel_index over N input packages,
\* indexed + skipped + failed = N, with and without force and under every
\* interleaving of the parsers and the writer.
C28_CountersSumToInput ==
    \A ret \in run.ret :
        ret.ok =>
            The(ret.stats).indexed + The(ret.stats).skipped + The(ret.stats).failed
                = Len(run.crates)

\* C28 witness: a build without force of two packages returned Ok after it
\* skipped the stored one and the parse of the other one failed.
C28_Witness ==
    /\ run.pc = "done"
    /\ ~run.force
    /\ \E ret \in run.ret :
          /\ ret.ok
          /\ The(ret.stats).skipped = 1
          /\ The(ret.stats).failed = 1
          /\ Len(run.crates) = 2

----------------------------------------------------------------------------
\* a result names a package of the closure that the store s holds with the
\* result's path
NamesStoredDependency(x, eng, s) ==
    /\ [name |-> x.crate_name, version |-> x.crate_version] \in DepSet(eng.all_deps)
    /\ \E row \in JoinRows(s, x.crate_name, x.crate_version) : row.path = x.path

\* C29: every result that find returns names a package (crate_name,
\* crate_version) of the resolved dependency closure that is indexed in the
\* store with the result's path; so crate_version is never empty, and with
\* crate_filter the results come from the version of the crate in the closure.
C29_ResultsNameStoredDependencies ==
    [][\A r \in resp' :
          resp = None =>
              \A i \in 1..Len(r.out.results) :
                  NamesStoredDependency(r.out.results[i], r.eng, db)]_vars

----------------------------------------------------------------------------
(* BraidWord::normalize.  A generator is its index and its inverse flag;   *)
(* name and profile travel with the generator and take no part in the      *)
(* rewriting.  A call in progress is held in resp:                         *)
(*   word       : the word normalize was called on                        *)
(*   generators : self.generators                                          *)
(*   rewrites, changed : the locals of normalize                           *)
(*   pc         : "while" at the loop test, "done" after the return        *)

BraidGenerator(index, inverse) == [index |-> index, inverse |-> inverse]

Abs(n) == IF n < 0 THEN -n ELSE n

\* the word without the generators at positions i and i + 1
RemovePair(generators, i) ==
    SubSeq(generators, 1, i - 1) \o SubSeq(generators, i + 2, Len(generators))

\* BraidWord::cancel_inverses from position i on (positions count from 1)
RECURSIVE cancel_inverses_from(_, _)
cancel_inverses_from(generators, i) ==
    IF i + 1 > Len(generators) THEN generators
    ELSE IF /\ generators[i].index = generators[i + 1].index
            /\ generators[i].inverse # generators[i + 1].inverse
    THEN cancel_inverses_from(RemovePair(generators, i), i)
    ELSE cancel_inverses_from(generators, i + 1)

cancel_inverses(generators) == cancel_inverses_from(generators, 1)

\* the test of commute at position pos
CanCommute(generators, pos) ==
    /\ pos + 1 <= Len(generators)
    /\ Abs(generators[pos].index - generators[pos + 1].index) > 1

\* self.generators.swap(pos, pos + 1)
Swapped(generators, pos) ==
    [generators EXCEPT ![pos] = generators[pos + 1], ![pos + 1] = generators[pos]]

\* BraidWord::commute: (applied, generators)
commute(generators, pos) ==
    IF CanCommute(generators, pos) THEN <<TRUE, Swapped(generators, pos)>>
    ELSE <<FALSE, generators>>

\* the first position at which the for loop of normalize commutes, 0 when
\* it commutes nowhere
FirstCommute(generators) ==
    IF \E i \in 1..(Len(generators) - 1) : commute(generators, i)[1]
    THEN CHOOSE i \in 1..(Len(generators) - 1) :
            /\ commute(generators, i)[1]
            /\ \A j \in 1..(i - 1) : ~commute(generators, j)[1]
    ELSE 0

\* the rewrite counter is followed up to MaxRewrites
MaxRewrites == 3

Counted(n) == IF n > MaxRewrites THEN MaxRewrites ELSE n

\* the for loop of normalize on the word the cancellation left
CommuteFirst(c, cancelled, generators) ==
    IF FirstCommute(generators) = 0
    THEN [c EXCEPT !.generators = generators,
                   !.rewrites = Counted(c.rewrites + cancelled),
                   !.changed = cancelled > 0]
    ELSE [c EXCEPT !.generators = commute(generators, FirstCommute(generators))[2],
                   !.rewrites = Counted(c.rewrites + cancelled + 1),
                   !.changed = TRUE]

\* one pass of the while loop of normalize
LoopBody(c) ==
    CommuteFirst(c, (Len(c.generators) - Len(cancel_inverses(c.generators))) \div 2,
                 cancel_inverses(c.generators))

MaxIndex == 2
MaxWordLen == 3

Generators == {BraidGenerator(i, inv) : i \in 0..MaxIndex, inv \in BOOLEAN}

\* the braid words: from_deps and push build any finite word
BraidWords == UNION {[1..n -> Generators] : n \in 0..MaxWordLen}

\* word.normalize() is called
NormalizeCall(word) ==
    /\ resp = None
    /\ resp' = Some([call |-> "normalize", word |-> word, generators |-> word,
                     rewrites |-> 0, changed |-> TRUE, pc |-> "while"])
    /\ UNCHANGED <<foreign_keys, db, conn, run, chan, writer, obs, prev>>

\* while changed { ... }
NormalizeLoop ==
    /\ \E c \in resp :
          /\ c.pc = "while"
          /\ c.changed
          /\ resp' = Some(LoopBody(c))
    /\ UNCHANGED <<foreign_keys, db, conn, run, chan, writer, obs, prev>>

\* the loop test fails: normalize returns rewrites
NormalizeReturn ==
    /\ \E c \in resp :
          /\ c.pc = "while"
          /\ ~c.changed
          /\ resp' = Some([c EXCEPT !.pc = "done"])
    /\ UNCHANGED <<foreign_keys, db, conn, run, chan, writer, obs, prev>>

\* the caller drops the word after the return
NormalizeDrop ==
    /\ \E c \in resp : c.pc = "done"
    /\ resp' = None
    /\ UNCHANGED <<foreign_keys, db, conn, run, chan, writer, obs, prev>>

NextNormalize ==
    \/ \E word \in BraidWords : NormalizeCall(word)
    \/ NormalizeLoop
    \/ NormalizeReturn
    \/ NormalizeDrop

SpecNormalize == InitCommon /\ [][NextNormalize]_vars

\* the thread that called normalize keeps running
SpecNormalizeFair == SpecNormalize /\ WF_vars(NormalizeLoop \/ NormalizeReturn)

\* C30: BraidWord::normalize terminates for every finite braid word, also
\* for a word in which two adjacent generators have indices that differ by
\* more than 1: every call that is in its loop returns.
C30_NormalizeTerminates ==
    (\E c \in resp : c.pc = "while") ~> (\E c \in resp : c.pc = "done")

====
